---- MODULE Spec2Model ----
(***************************************************************************)
(* Model of the virtual USB device engine of virtual-usb-rs:               *)
(* the reader worker decoding USB/IP frames, the command and reply         *)
(* channels, the endpoint-0 control state machine of VirtualUSBDevice and  *)
(* the writer worker.                                                      *)
(*                                                                         *)
(* Option<T> is modelled as a sequence of length 0 (None) or 1 (Some).     *)
(* Bytes are naturals in 0..255, byte strings are sequences of bytes.      *)
(***************************************************************************)
EXTENDS Integers, Sequences, FiniteSets, TLC

\* ------------------------------------------------------------------------
\* Bounds of the model
\* ------------------------------------------------------------------------

\* Number of frames the kernel side sends on the socket in one behaviour.
MaxFrames == 2

\* workers of earlier sessions that may still be alive, per kind
MaxOldWorkers == 1

\* calls of report_descriptor and of endpoint_descriptor on one HID
\* interface builder
MaxReportDescriptors == 2
MaxEndpointDescriptors == 2

\* calls of interface on one configuration builder
MaxInterfaces == 2

\* calls of configuration on one device builder, and entries of its string table
MaxConfigurations == 2
MaxStrings == 4

\* ------------------------------------------------------------------------
\* Program constants
\* ------------------------------------------------------------------------

USBIP_CMD_SIZE == 48
USBIP_CMD_SUBMIT == 1
USBIP_CMD_UNLINK == 2
USBIP_RET_SUBMIT == 3
USBIP_RET_UNLINK == 4

\* UsbIpDirection
Out == 0
In == 1

ENDPOINT_MAX_COUNT == 32
SELF_POWERED == 64

\* StandardRequest (bRequest) values used by the engine
GetStatus == 0
GetDescriptor == 6
SetConfiguration == 9
StandardRequestMax == 12

\* Type (bmRequestType bits 1..2)
Standard == 0

\* Recipient (bmRequestType bits 3..7)
Device == 0
Interface == 1
RecipientMax == 3

\* DescriptorType
DT_Device == 1
DT_Configuration == 2
DT_String == 3
DT_Interface == 4
DT_Endpoint == 5
DT_DeviceQualifier == 6
DT_InterfacePower == 8
DT_Debug == 10

\* HidDescriptorType
HID_Hid == 33
HID_Report == 34
HID_Physical == 35

\* status the engine passes for an unlink (ECONNRESET)
ECONNRESET_STATUS == -104

\* ------------------------------------------------------------------------
\* Small helpers
\* ------------------------------------------------------------------------

Min(a, b) == IF a < b THEN a ELSE b

MaxOf(S) == CHOOSE x \in S : \A y \in S : y <= x

\* Vec::truncate(n)
Truncate(s, n) == SubSeq(s, 1, Min(Len(s), n))

\* little-endian bytes of a u16
Le16(n) == << (n % 65536) % 256, (n % 65536) \div 256 >>

\* Concatenation of the packed forms of the elements of a sequence
RECURSIVE Flatten(_)
Flatten(ss) ==
    IF ss = << >> THEN << >> ELSE Head(ss) \o Flatten(Tail(ss))

\* ------------------------------------------------------------------------
\* Descriptor codec (usb.rs, usb/hid.rs)
\* ------------------------------------------------------------------------

DeviceDescriptor_new(vendor_id, product_id) ==
    [ b_length |-> 18, b_descriptor_type |-> DT_Device, bcd_usb |-> 512,
      b_device_class |-> 0, b_device_sub_class |-> 0, b_device_protocol |-> 0,
      b_max_packet_size_0 |-> 16, id_vendor |-> vendor_id,
      id_product |-> product_id, bcd_device |-> 256,
      i_manufacturer |-> 1, i_product |-> 2, i_serial_number |-> 0,
      b_num_configurations |-> 1 ]

DeviceDescriptor_pack(d) ==
    << d.b_length, d.b_descriptor_type >> \o Le16(d.bcd_usb) \o
    << d.b_device_class, d.b_device_sub_class, d.b_device_protocol,
       d.b_max_packet_size_0 >> \o
    Le16(d.id_vendor) \o Le16(d.id_product) \o Le16(d.bcd_device) \o
    << d.i_manufacturer, d.i_product, d.i_serial_number,
       d.b_num_configurations >>

DeviceQualifierDescriptor_new ==
    [ b_length |-> 10, b_type |-> DT_DeviceQualifier, bcd_usb |-> 512,
      b_device_class |-> 3, b_device_sub_class |-> 0, b_device_protocol |-> 0,
      b_max_packet_size_0 |-> 16, b_num_configurations |-> 1, b_reserved |-> 0 ]

DeviceQualifierDescriptor_pack(d) ==
    << d.b_length, d.b_type >> \o Le16(d.bcd_usb) \o
    << d.b_device_class, d.b_device_sub_class, d.b_device_protocol,
       d.b_max_packet_size_0, d.b_num_configurations, d.b_reserved >>

ConfigurationDescriptor_new ==
    [ b_length |-> 9, b_descriptor_type |-> DT_Configuration,
      w_total_length |-> 0, b_num_interfaces |-> 0,
      b_configuration_value |-> 1, i_configuration |-> 0,
      bm_attributes |-> 128, b_max_power |-> 0 ]

ConfigurationDescriptor_pack(c) ==
    << c.b_length, c.b_descriptor_type >> \o Le16(c.w_total_length) \o
    << c.b_num_interfaces, c.b_configuration_value, c.i_configuration,
       c.bm_attributes, c.b_max_power >>

InterfaceDescriptor_pack(i) ==
    << i.b_length, i.b_descriptor_type, i.b_interface_number,
       i.b_alternate_setting, i.b_num_endpoints, i.b_interface_class,
       i.b_interface_subclass, i.b_interface_protocol, i.i_interface >>

HidDescriptor_new ==
    [ b_length |-> 6, b_descriptor_type |-> 33, bcd_hid |-> 272,
      b_country_code |-> 0, b_num_descriptors |-> 0 ]

HidDescriptor_pack(h) ==
    << h.b_length, h.b_descriptor_type >> \o Le16(h.bcd_hid) \o
    << h.b_country_code, h.b_num_descriptors >>

HidReportDescriptorInfo_pack(r) ==
    << r.b_descriptor_type >> \o Le16(r.w_descriptor_length)

EndpointDescriptor_new ==
    [ b_length |-> 7, b_descriptor_type |-> DT_Endpoint,
      b_endpoint_address_direction |-> 0, b_endpoint_address_reserved |-> 0,
      b_endpoint_address_num |-> 1, bm_attributes_reserved |-> 0,
      bm_attributes_usage_type |-> 0, bm_attributes_sync_type |-> 0,
      bm_attributes_xfer_type |-> 0, w_max_packet_size |-> 0,
      b_interval |-> 1 ]

EndpointDescriptor_pack(e) ==
    << e.b_length, e.b_descriptor_type,
       e.b_endpoint_address_direction * 128
         + e.b_endpoint_address_reserved * 16 + e.b_endpoint_address_num,
       e.bm_attributes_reserved * 64 + e.bm_attributes_usage_type * 16
         + e.bm_attributes_sync_type * 4 + e.bm_attributes_xfer_type >> \o
    Le16(e.w_max_packet_size) \o << e.b_interval >>

HidInterface_new ==
    [ iface |-> [ b_length |-> 9, b_descriptor_type |-> DT_Interface,
                  b_interface_number |-> 0, b_alternate_setting |-> 0,
                  b_num_endpoints |-> 1, b_interface_class |-> 3,
                  b_interface_subclass |-> 0, b_interface_protocol |-> 0,
                  i_interface |-> 0 ],
      descriptor |-> HidDescriptor_new,
      report_descriptors |-> << >>,
      report_descriptor_info |-> << >>,
      endpoint_descriptors |-> << >> ]

HidInterface_get_size_without_endpoints(h) ==
    9 + 6 + 3 * Len(h.report_descriptor_info)

HidInterface_get_size(h) ==
    9 + 6 + 3 * Len(h.report_descriptor_info) + 7 * Len(h.endpoint_descriptors)

HidInterface_pack_to_vec(h) ==
    InterfaceDescriptor_pack(h.iface) \o HidDescriptor_pack(h.descriptor) \o
    Flatten([ i \in 1..Len(h.report_descriptor_info) |->
              HidReportDescriptorInfo_pack(h.report_descriptor_info[i]) ]) \o
    Flatten([ i \in 1..Len(h.endpoint_descriptors) |->
              EndpointDescriptor_pack(h.endpoint_descriptors[i]) ])

HidInterfaceBuilder_report_descriptor(h, report_desc) ==
    [ h EXCEPT
        !.report_descriptors = Append(@, report_desc),
        !.report_descriptor_info =
            Append(@, [ b_descriptor_type |-> 34,
                        w_descriptor_length |-> Len(report_desc) % 65536 ]),
        !.descriptor.b_num_descriptors = (@ + 1) % 256,
        !.descriptor.b_length = (@ + 3) % 256 ]

HidInterfaceBuilder_endpoint_descriptor(h, descriptor) ==
    [ h EXCEPT
        !.endpoint_descriptors = Append(@, descriptor),
        !.iface.b_num_endpoints = (Len(h.endpoint_descriptors) + 1) % 256 ]

RECURSIVE SumSizes(_)
SumSizes(ifaces) ==
    IF ifaces = << >> THEN 0
    ELSE HidInterface_get_size(Head(ifaces)) + SumSizes(Tail(ifaces))

Configuration_get_size(c) == 9 + SumSizes(c.interfaces)

Configuration_pack_to_vec(c) ==
    LET config == [ c.conf_desc EXCEPT
                      !.b_num_interfaces = Len(c.interfaces) % 256,
                      !.w_total_length = Configuration_get_size(c) % 65536 ]
    IN  ConfigurationDescriptor_pack(config) \o
        Flatten([ i \in 1..Len(c.interfaces) |->
                  HidInterface_pack_to_vec(c.interfaces[i]) ])

ConfigurationBuilder_new ==
    [ conf_desc |-> ConfigurationDescriptor_new, interfaces |-> << >> ]

ConfigurationBuilder_interface_unnumbered(c, interface) ==
    LET ifaces == Append(c.interfaces, interface)
    IN  [ conf_desc |-> [ c.conf_desc EXCEPT
                            !.b_num_interfaces = Len(ifaces) % 256,
                            !.w_total_length = (9 + SumSizes(ifaces)) % 65536 ],
          interfaces |-> ifaces ]

ConfigurationBuilder_interface(c, interface) ==
    LET numbered == [ interface EXCEPT
                        !.iface.b_interface_number = Len(c.interfaces) % 256 ]
        ifaces == Append(c.interfaces, numbered)
    IN  [ conf_desc |-> [ c.conf_desc EXCEPT
                            !.b_num_interfaces = Len(ifaces) % 256,
                            !.w_total_length = (9 + SumSizes(ifaces)) % 65536 ],
          interfaces |-> ifaces ]

\* StringDescriptor: the data bytes; pack_to_vec fails above 126 bytes
StringDescriptor_pack_to_vec(data) ==
    IF Len(data) > 126 THEN [ ok |-> FALSE, bytes |-> << >> ]
    ELSE [ ok |-> TRUE, bytes |-> << (Len(data) + 2) % 256, DT_String >> \o data ]

\* From<Vec<LangId>> for StringDescriptor
StringDescriptor_from_langs(langs) ==
    Flatten([ i \in 1..Len(langs) |-> Le16(langs[i]) ])

\* VirtualUSBDeviceBuilder
VirtualUSBDeviceBuilder_new(vendor_id, product_id) ==
    [ device_desc |-> DeviceDescriptor_new(vendor_id, product_id),
      device_qualifier_desc |-> DeviceQualifierDescriptor_new,
      configs |-> << >>,
      string_descs |-> << >> ]

VirtualUSBDeviceBuilder_supported_langs(i, langs) ==
    [ i EXCEPT !.string_descs = << StringDescriptor_from_langs(langs) >> \o @ ]

VirtualUSBDeviceBuilder_configuration(i, config) ==
    [ i EXCEPT !.configs = Append(@, config),
               !.device_desc.b_num_configurations = (Len(i.configs) + 1) % 256 ]

VirtualUSBDeviceBuilder_manufacturer(i, manufacturer) ==
    [ i EXCEPT !.string_descs = Append(@, manufacturer),
               !.device_desc.i_manufacturer = Len(i.string_descs) % 256 ]

VirtualUSBDeviceBuilder_product(i, product) ==
    [ i EXCEPT !.string_descs = Append(@, product),
               !.device_desc.i_product = Len(i.string_descs) % 256 ]

VirtualUSBDeviceBuilder_serial(i, serial) ==
    [ i EXCEPT !.string_descs = Append(@, serial),
               !.device_desc.i_serial_number = Len(i.string_descs) % 256 ]

VirtualUSBDeviceBuilder_strings(i, strings) ==
    [ i EXCEPT !.string_descs = @ \o strings ]

\* ------------------------------------------------------------------------
\* USB/IP frames on the socket and their decoding by the reader worker
\* ------------------------------------------------------------------------

\* SetupRequest::unpack: bmRequestType is split msb-first into direction
\* (1 bit), kind (2 bits) and recipient (5 bits); recipient and bRequest are
\* enum-typed fields, so a value outside the enum fails the unpack.
SetupRequest_unpack(raw) ==
    LET recipient == raw.bm_request_type % 32
    IN  [ ok |-> recipient <= RecipientMax /\ raw.b_request <= StandardRequestMax,
          setup |-> [ bm_request_type_direction |-> raw.bm_request_type \div 128,
                      bm_request_type_kind |-> (raw.bm_request_type \div 32) % 4,
                      bm_request_type_recipient |-> recipient,
                      b_request |-> raw.b_request,
                      w_value |-> raw.w_value,
                      w_index |-> raw.w_index,
                      w_length |-> raw.w_length ] ]

\* SetupRequest of an all-zero buffer (used for the fields a CmdUnlink lacks)
ZeroSetup ==
    [ bm_request_type_direction |-> 0, bm_request_type_kind |-> 0,
      bm_request_type_recipient |-> 0, b_request |-> 0,
      w_value |-> 0, w_index |-> 0, w_length |-> 0 ]

\* SetupRequest::is_standard
is_standard(setup) == setup.bm_request_type_kind = Standard

\* SetupRequest::is_empty: the eight setup bytes are all zero
is_empty(setup) == setup = ZeroSetup

\* ReadHandler::read that reads transfer_buffer_length payload bytes in both
\* directions
ReadHandler_read_payload_always(frame, id) ==
    LET base == [ command |-> frame.command, seqnum |-> frame.seqnum,
                  devid |-> frame.devid, direction |-> frame.direction,
                  ep |-> frame.ep ]
        su == SetupRequest_unpack(frame.setup)
        payload_length == frame.transfer_buffer_length
        none == [ variant |-> 0, base |-> base, transfer_buffer_length |-> 0,
                  setup |-> ZeroSetup, unlink_seqnum |-> 0,
                  payload |-> << >>, id |-> id,
                  consumed |-> USBIP_CMD_SIZE,
                  frame_len |-> USBIP_CMD_SIZE + Len(frame.payload) ]
    IN  IF frame.direction \notin {Out, In}
        THEN [ ok |-> FALSE, cmd |-> none ]
        ELSE IF frame.command = USBIP_CMD_SUBMIT
        THEN IF ~su.ok
             THEN [ ok |-> FALSE, cmd |-> none ]
             ELSE [ ok |-> TRUE,
                    cmd |-> [ none EXCEPT
                                !.variant = USBIP_CMD_SUBMIT,
                                !.transfer_buffer_length = frame.transfer_buffer_length,
                                !.setup = su.setup,
                                !.payload = Truncate(frame.payload, payload_length),
                                !.consumed = USBIP_CMD_SIZE + payload_length ] ]
        ELSE IF frame.command = USBIP_CMD_UNLINK
        THEN [ ok |-> TRUE,
               cmd |-> [ none EXCEPT !.variant = USBIP_CMD_UNLINK,
                                     !.unlink_seqnum = frame.unlink_seqnum ] ]
        ELSE [ ok |-> FALSE, cmd |-> none ]

\* ReadHandler::read for one frame of the stream.  Labels of the model, not
\* fields of the program: id is the position of the frame in the stream,
\* consumed the number of bytes the two read_exact calls took from the
\* stream, frame_len the number of bytes the sender put on the stream for
\* the frame.
ReadHandler_read(frame, id) ==
    LET base == [ command |-> frame.command, seqnum |-> frame.seqnum,
                  devid |-> frame.devid, direction |-> frame.direction,
                  ep |-> frame.ep ]
        su == SetupRequest_unpack(frame.setup)
        payload_length == IF frame.direction = Out
                          THEN frame.transfer_buffer_length ELSE 0
        none == [ variant |-> 0, base |-> base, transfer_buffer_length |-> 0,
                  setup |-> ZeroSetup, unlink_seqnum |-> 0,
                  payload |-> << >>, id |-> id,
                  consumed |-> USBIP_CMD_SIZE,
                  frame_len |-> USBIP_CMD_SIZE + Len(frame.payload) ]
    IN  IF frame.direction \notin {Out, In}
        THEN [ ok |-> FALSE, cmd |-> none ]
        ELSE IF frame.command = USBIP_CMD_SUBMIT
        THEN IF ~su.ok
             THEN [ ok |-> FALSE, cmd |-> none ]
             ELSE [ ok |-> TRUE,
                    cmd |-> [ variant |-> USBIP_CMD_SUBMIT, base |-> base,
                              transfer_buffer_length |-> frame.transfer_buffer_length,
                              setup |-> su.setup, unlink_seqnum |-> 0,
                              payload |-> Truncate(frame.payload, payload_length),
                              id |-> id,
                              consumed |-> USBIP_CMD_SIZE + payload_length,
                              frame_len |-> USBIP_CMD_SIZE + Len(frame.payload) ] ]
        ELSE IF frame.command = USBIP_CMD_UNLINK
        THEN [ ok |-> TRUE,
               cmd |-> [ none EXCEPT !.variant = USBIP_CMD_UNLINK,
                                     !.unlink_seqnum = frame.unlink_seqnum ] ]
        ELSE [ ok |-> FALSE, cmd |-> none ]

\* ------------------------------------------------------------------------
\* Replies
\* ------------------------------------------------------------------------

\* The fields origin (the command answered), auto (built by the engine, not
\* by the caller) and data (the bytes handed to the constructor) are labels
\* of the model.
\* RetSubmit with the devid left at the value the protocol gives a server
\* (0) instead of the command's
RetSubmit_zero_devid(header, data, origin, auto) ==
    [ variant |-> USBIP_RET_SUBMIT,
      base |-> [ command |-> USBIP_RET_SUBMIT, seqnum |-> header.seqnum,
                 devid |-> 0, direction |-> header.direction,
                 ep |-> header.ep ],
      status |-> 0,
      actual_length |-> Len(data),
      payload |-> IF header.direction = In THEN data ELSE << >>,
      origin |-> origin, auto |-> auto, data |-> data ]

RetSubmit(header, data, origin, auto) ==
    [ variant |-> USBIP_RET_SUBMIT,
      base |-> [ command |-> USBIP_RET_SUBMIT, seqnum |-> header.seqnum,
                 devid |-> header.devid, direction |-> header.direction,
                 ep |-> header.ep ],
      status |-> 0,
      actual_length |-> Len(data),
      payload |-> IF header.direction = In THEN data ELSE << >>,
      origin |-> origin, auto |-> auto, data |-> data ]

RetUnlink(header, status, origin) ==
    [ variant |-> USBIP_RET_UNLINK,
      base |-> [ command |-> USBIP_RET_UNLINK, seqnum |-> header.seqnum,
                 devid |-> header.devid, direction |-> header.direction,
                 ep |-> header.ep ],
      status |-> status,
      actual_length |-> 0,
      payload |-> << >>,
      origin |-> origin, auto |-> TRUE, data |-> << >> ]

\* Reply::from_xfer
Reply_from_xfer(xfer, data) ==
    RetSubmit(xfer.cmd.base, data, xfer.origin, FALSE)

\* reply with actual_length of a RET_SUBMIT taken from the status argument
reply_length_from_status(cmd, data, status, can_send) ==
    LET header == cmd.base
    IN  IF header.command = USBIP_CMD_SUBMIT
        THEN IF header.direction = In /\ data = << >>
             THEN [ ok |-> FALSE, sent |-> << >>, err |-> "NoDataForInReply" ]
             ELSE IF can_send
             THEN [ ok |-> TRUE,
                    sent |-> << [ RetSubmit(header, data, cmd, TRUE)
                                    EXCEPT !.actual_length = status ] >>,
                    err |-> "" ]
             ELSE [ ok |-> FALSE, sent |-> << >>, err |-> "WriterGone" ]
        ELSE IF header.command = USBIP_CMD_UNLINK
        THEN IF can_send
             THEN [ ok |-> TRUE, sent |-> << RetUnlink(header, status, cmd) >>,
                    err |-> "" ]
             ELSE [ ok |-> FALSE, sent |-> << >>, err |-> "WriterGone" ]
        ELSE [ ok |-> FALSE, sent |-> << >>, err |-> "UnknownCommand" ]

\* VirtualUSBDevice::reply; can_send is whether the receiving end of the
\* reply channel is still alive.
reply(cmd, data, status, can_send) ==
    LET header == cmd.base
    IN  IF header.command = USBIP_CMD_SUBMIT
        THEN IF header.direction = In /\ data = << >>
             THEN [ ok |-> FALSE, sent |-> << >>, err |-> "NoDataForInReply" ]
             ELSE IF can_send
             THEN [ ok |-> TRUE, sent |-> << RetSubmit(header, data, cmd, TRUE) >>,
                    err |-> "" ]
             ELSE [ ok |-> FALSE, sent |-> << >>, err |-> "WriterGone" ]
        ELSE IF header.command = USBIP_CMD_UNLINK
        THEN IF can_send
             THEN [ ok |-> TRUE, sent |-> << RetUnlink(header, status, cmd) >>,
                    err |-> "" ]
             ELSE [ ok |-> FALSE, sent |-> << >>, err |-> "WriterGone" ]
        ELSE [ ok |-> FALSE, sent |-> << >>, err |-> "UnknownCommand" ]

\* ------------------------------------------------------------------------
\* The protocol engine: outcome of handling one command
\* ------------------------------------------------------------------------

\* result is "Ok", "Err" or "Panic"; xfer is the Option<Xfer> returned;
\* sent is the reply pushed on the reply channel (at most one); config is
\* current_config after the call.
Outcome(result, err, xfer, sent, config) ==
    [ result |-> result, err |-> err, xfer |-> xfer, sent |-> sent,
      config |-> config ]

Failed(err, config) == Outcome("Err", err, << >>, << >>, config)

Panicked(err, config) == Outcome("Panic", err, << >>, << >>, config)

\* Outcome of a handler that pushes its reply and then returns an error
Replied_then_failed(r, config) ==
    IF r.ok THEN Outcome("Err", "FailedAfterReply", << >>, r.sent, config)
    ELSE Failed(r.err, config)

\* Outcome of a handler that ends with self.reply(..)?; Ok(())
Replied(r, config) ==
    IF r.ok THEN Outcome("Ok", "", << >>, r.sent, config)
    ELSE Failed(r.err, config)

SubmitHeader(cmd) ==
    [ base |-> cmd.base, transfer_buffer_length |-> cmd.transfer_buffer_length,
      setup |-> cmd.setup ]

\* Xfer::header: the setup request of the submit header, unless it is empty
Xfer_header(xfer) ==
    IF is_empty(xfer.cmd.setup) THEN << >> ELSE << xfer.cmd.setup >>

handle_command_submit_epX_out(cmd, config, can_send) ==
    LET ep_idx == cmd.base.ep
        r == reply(cmd, << >>, Len(cmd.payload), can_send)
    IN  IF ep_idx >= ENDPOINT_MAX_COUNT THEN Failed("InvalidEndpoint", config)
        ELSE IF ~r.ok THEN Failed(r.err, config)
        ELSE Outcome("Ok", "",
                     << [ ep |-> ep_idx, data |-> cmd.payload,
                          cmd |-> SubmitHeader(cmd), origin |-> cmd ] >>,
                     r.sent, config)

handle_command_submit_epX_in(cmd, config) ==
    LET ep_idx == cmd.base.ep
    IN  IF ep_idx >= ENDPOINT_MAX_COUNT THEN Failed("InvalidEndpoint", config)
        ELSE Outcome("Ok", "",
                     << [ ep |-> ep_idx, data |-> cmd.payload,
                          cmd |-> SubmitHeader(cmd), origin |-> cmd ] >>,
                     << >>, config)

\* handle_command_submit_epX with the two arms of the match exchanged
handle_command_submit_epX_swapped(cmd, config, can_send) ==
    IF cmd.base.direction = In
    THEN handle_command_submit_epX_out(cmd, config, can_send)
    ELSE handle_command_submit_epX_in(cmd, config)

handle_command_submit_epX(cmd, config, can_send) ==
    IF cmd.base.direction = Out
    THEN handle_command_submit_epX_out(cmd, config, can_send)
    ELSE handle_command_submit_epX_in(cmd, config)

\* handle_command_unlink with the errno passed without its sign
handle_command_unlink_errno(cmd, config, can_send) ==
    Replied(reply(cmd, << >>, -ECONNRESET_STATUS, can_send), config)

handle_command_unlink(cmd, config, can_send) ==
    Replied(reply(cmd, << >>, ECONNRESET_STATUS, can_send), config)

\* DescriptorType::from_primitive
DescriptorType_valid(t) == t \in (DT_Device .. DT_InterfacePower) \cup {DT_Debug}

\* to_msb_bytes of a 32-bit integer
ToMsbBytes32(n) ==
    << (n \div 16777216) % 256, (n \div 65536) % 256, (n \div 256) % 256, n % 256 >>

\* bm_attributes & SELF_POWERED
SelfPoweredMask(bm_attributes) == ((bm_attributes \div SELF_POWERED) % 2) * SELF_POWERED

\* GetStatusRequest answering 00 00 00 00 when no configuration is current
GetStatusRequest_unconfigured(cmd, config, can_send) ==
    Replied(reply(cmd, ToMsbBytes32(0), 0, can_send), config)

GetStatusRequest(cmd, config, can_send) ==
    IF config = << >> THEN Failed("NoConfig", config)
    ELSE LET self_powered == SelfPoweredMask(config[1].conf_desc.bm_attributes)
             value == IF self_powered = 1 THEN 1 ELSE 0
         IN  Replied(reply(cmd, ToMsbBytes32(value), 0, can_send), config)

GetDescriptorRequest(cmd, req, config, info, can_send) ==
    LET desc_type == (req.w_value % 65536) \div 256
        desc_idx == req.w_value % 256
        str == IF desc_idx < Len(info.string_descs)
               THEN StringDescriptor_pack_to_vec(info.string_descs[desc_idx + 1])
               ELSE [ ok |-> FALSE, bytes |-> << >> ]
        Answer(data) ==
            LET status == IF data = << >> THEN 1 ELSE 0
            IN  Replied(reply(cmd, Truncate(data, req.w_length), status, can_send),
                        config)
    IN  IF ~DescriptorType_valid(desc_type) THEN Failed("InvalidDescriptorType", config)
        ELSE IF desc_type = DT_Device
        THEN Answer(DeviceDescriptor_pack(info.device_desc))
        ELSE IF desc_type = DT_Configuration
        THEN IF desc_idx < Len(info.configs)
             THEN Answer(Configuration_pack_to_vec(info.configs[desc_idx + 1]))
             ELSE Failed("InvalidConfigurationIndex", config)
        ELSE IF desc_type = DT_String
        THEN IF desc_idx >= Len(info.string_descs)
             THEN Failed("InvalidStringIndex", config)
             ELSE IF ~str.ok THEN Failed("PackingError", config)
             ELSE Answer(str.bytes)
        ELSE IF desc_type = DT_DeviceQualifier
        THEN Answer(DeviceQualifierDescriptor_pack(info.device_qualifier_desc))
        ELSE IF desc_type = DT_Debug
        THEN Answer(<< >>)
        ELSE Failed("UnsupportedDescriptorType", config)

\* SelectConfiguration that clears current_config when nothing matches
SelectConfiguration_deconfigure(configs, config_val, config) ==
    LET matches == { i \in 1..Len(configs) :
                       configs[i].conf_desc.b_configuration_value = config_val }
    IN  IF matches = {} THEN [ ok |-> FALSE, config |-> << >> ]
        ELSE [ ok |-> TRUE, config |-> << configs[MaxOf(matches)] >> ]

\* The loop over info.configs: every match overwrites current_config, so
\* the last matching configuration is the one selected.
SelectConfiguration(configs, config_val, config) ==
    LET matches == { i \in 1..Len(configs) :
                       configs[i].conf_desc.b_configuration_value = config_val }
    IN  IF matches = {} THEN [ ok |-> FALSE, config |-> config ]
        ELSE [ ok |-> TRUE, config |-> << configs[MaxOf(matches)] >> ]

SetConfigurationRequest(cmd, req, config, info, can_send) ==
    LET config_val == req.w_value % 256
        sel == SelectConfiguration(info.configs, config_val, config)
    IN  IF ~sel.ok THEN Failed("InvalidConfigurationValue", sel.config)
        ELSE Replied(reply(cmd, << >>, 0, can_send), sel.config)

handle_command_submit_ep0_standard_request_for_device(cmd, req, direction, config, info, can_send) ==
    IF direction = In
    THEN IF req.b_request = GetStatus
         THEN GetStatusRequest(cmd, config, can_send)
         ELSE IF req.b_request = GetDescriptor
         THEN GetDescriptorRequest(cmd, req, config, info, can_send)
         ELSE IF req.b_request = SetConfiguration
         THEN SetConfigurationRequest(cmd, req, config, info, can_send)
         ELSE Failed("InvalidInRequest", config)
    ELSE IF cmd.transfer_buffer_length # 0
         THEN Failed("UnexpectedPayload", config)
         ELSE IF req.b_request = SetConfiguration
         THEN SetConfigurationRequest(cmd, req, config, info, can_send)
         ELSE Failed("InvalidOutRequest", config)

\* HidGetDescriptorRequest::from(req): wValue is re-read as (index, type);
\* the unwrap panics when the type byte is not an HidDescriptorType.
\* the interface handler cutting the report descriptor to wLength, as
\* the device handler does for its descriptors
handle_command_submit_ep0_standard_request_for_iface_truncating(cmd, req, direction, config, can_send) ==
    IF direction = In /\ req.b_request = GetDescriptor /\ config # << >>
    THEN LET ifaces == config[1].interfaces
             descs == ifaces[req.w_index + 1].report_descriptors
         IN  IF req.w_index >= Len(ifaces) THEN Failed("NoInterface", config)
             ELSE IF (req.w_value % 65536) \div 256 # HID_Report
             THEN Panicked("todo", config)
             ELSE IF req.w_value % 256 >= Len(descs)
             THEN Failed("NoReportDescriptor", config)
             ELSE Replied(reply(cmd, Truncate(descs[(req.w_value % 256) + 1],
                                              req.w_length), 0, can_send), config)
    ELSE IF direction = In /\ req.b_request = GetDescriptor
    THEN Failed("NoConfig", config)
    ELSE Panicked("todo", config)

handle_command_submit_ep0_standard_request_for_iface(cmd, req, direction, config, can_send) ==
    IF direction = In
    THEN IF req.b_request = GetDescriptor
         THEN IF config = << >> THEN Failed("NoConfig", config)
              ELSE LET iface_idx == req.w_index
                       ifaces == config[1].interfaces
                       b_descriptor_index == req.w_value % 256
                       b_descriptor_type == (req.w_value % 65536) \div 256
                   IN  IF iface_idx >= Len(ifaces)
                       THEN Failed("NoInterface", config)
                       ELSE IF b_descriptor_type \notin {HID_Hid, HID_Report, HID_Physical}
                       THEN Panicked("unwrap", config)
                       ELSE IF b_descriptor_type # HID_Report
                       THEN Panicked("todo", config)
                       ELSE LET descs == ifaces[iface_idx + 1].report_descriptors
                            IN  IF b_descriptor_index >= Len(descs)
                                THEN Failed("NoReportDescriptor", config)
                                ELSE Replied(reply(cmd, descs[b_descriptor_index + 1],
                                                   0, can_send), config)
         ELSE Panicked("todo", config)
    ELSE Panicked("todo", config)

handle_command_submit_ep0_standard_request(cmd, req, config, info, can_send) ==
    LET direction == cmd.base.direction
        recipient == req.bm_request_type_recipient
    IN  IF recipient = Device
        THEN handle_command_submit_ep0_standard_request_for_device(
                 cmd, req, direction, config, info, can_send)
        ELSE IF recipient = Interface
        THEN handle_command_submit_ep0_standard_request_for_iface(
                 cmd, req, direction, config, can_send)
        ELSE Failed("UnhandledRecipient", config)

\* handle_command_submit_ep0 that hands every non-standard request to the
\* caller without acknowledging it
handle_command_submit_ep0_no_ack(cmd, config, info, can_send) ==
    IF is_standard(cmd.setup)
    THEN handle_command_submit_ep0_standard_request(cmd, cmd.setup, config,
                                                    info, can_send)
    ELSE handle_command_submit_epX_in(cmd, config)

handle_command_submit_ep0(cmd, config, info, can_send) ==
    IF is_standard(cmd.setup)
    THEN handle_command_submit_ep0_standard_request(cmd, cmd.setup, config,
                                                    info, can_send)
    ELSE handle_command_submit_epX(cmd, config, can_send)

handle_command(cmd, config, info, can_send) ==
    IF cmd.variant = USBIP_CMD_SUBMIT
    THEN IF cmd.base.ep = 0
         THEN handle_command_submit_ep0(cmd, config, info, can_send)
         ELSE handle_command_submit_epX(cmd, config, can_send)
    ELSE handle_command_unlink(cmd, config, can_send)

\* ------------------------------------------------------------------------
\* Device descriptions the model is run on
\* ------------------------------------------------------------------------

ConfigurationBuilder_max_power(c, max_power_mA) ==
    [ c EXCEPT !.conf_desc.b_max_power = (max_power_mA \div 2) % 256 ]

ReportDescA == << 5, 1, 9 >>

\* one HID interface with the report descriptors ReportDescA and an empty one
HidIfaceA ==
    HidInterfaceBuilder_endpoint_descriptor(
        HidInterfaceBuilder_report_descriptor(
            HidInterfaceBuilder_report_descriptor(HidInterface_new, ReportDescA),
            << >>),
        [ EndpointDescriptor_new EXCEPT !.b_endpoint_address_num = 3,
                                        !.b_endpoint_address_direction = 1,
                                        !.bm_attributes_xfer_type = 3,
                                        !.w_max_packet_size = 64 ])

\* bConfigurationValue 1, bus powered, one HID interface
ConfigA == ConfigurationBuilder_interface(ConfigurationBuilder_new, HidIfaceA)

\* bConfigurationValue 2, bus powered with remote wakeup, no interface
ConfigB ==
    [ ConfigurationBuilder_new EXCEPT !.conf_desc.b_configuration_value = 2,
                                      !.conf_desc.bm_attributes = 160 ]

\* bConfigurationValue 2 a second time, self powered; the later of two
\* configurations of one value is the one SET_CONFIGURATION selects
ConfigB2 ==
    [ ConfigurationBuilder_max_power(ConfigurationBuilder_new, 100) EXCEPT
        !.conf_desc.b_configuration_value = 2,
        !.conf_desc.bm_attributes = 192 ]

\* vendor 0x28de, product 0x1205, LANGID 0x0409, strings "Va" and "S"
TheInfo ==
    VirtualUSBDeviceBuilder_configuration(
      VirtualUSBDeviceBuilder_configuration(
        VirtualUSBDeviceBuilder_configuration(
          VirtualUSBDeviceBuilder_product(
            VirtualUSBDeviceBuilder_manufacturer(
              VirtualUSBDeviceBuilder_supported_langs(
                VirtualUSBDeviceBuilder_new(10462, 4613), << 1033 >>),
              << 86, 97 >>),
            << 83 >>),
          ConfigA),
        ConfigB),
      ConfigB2)

\* ------------------------------------------------------------------------
\* Frames the kernel side may send
\* ------------------------------------------------------------------------

SubmitFrame(seqnum, devid, direction, ep, tbl, bm, breq, wv, wi, wl, payload) ==
    [ command |-> USBIP_CMD_SUBMIT, seqnum |-> seqnum, devid |-> devid,
      direction |-> direction, ep |-> ep, transfer_buffer_length |-> tbl,
      setup |-> [ bm_request_type |-> bm, b_request |-> breq, w_value |-> wv,
                  w_index |-> wi, w_length |-> wl ],
      unlink_seqnum |-> 0, payload |-> payload ]

UnlinkFrame(seqnum, devid, direction, unlink_seqnum) ==
    [ command |-> USBIP_CMD_UNLINK, seqnum |-> seqnum, devid |-> devid,
      direction |-> direction, ep |-> 0, transfer_buffer_length |-> 0,
      setup |-> [ bm_request_type |-> 0, b_request |-> 0, w_value |-> 0,
                  w_index |-> 0, w_length |-> 0 ],
      unlink_seqnum |-> unlink_seqnum, payload |-> << >> ]

OutData == << 170, 187 >>

\* CMD_SUBMIT on endpoints 3, 16 and 32, both directions
EpFrames ==
    { SubmitFrame(1, 1, Out, 3, 2, 0, 0, 0, 0, 0, OutData),
      SubmitFrame(1, 1, Out, 32, 2, 0, 0, 0, 0, 0, OutData),
      SubmitFrame(1, 1, In, 16, 64, 0, 0, 0, 0, 0, << >>),
      SubmitFrame(1, 1, In, 32, 64, 0, 0, 0, 0, 0, << >>),
      SubmitFrame(2, 65538, In, 3, 64, 0, 0, 0, 0, 0, << >>) }

UnlinkFrames ==
    { UnlinkFrame(1, 1, Out, 2), UnlinkFrame(2, 65538, Out, 1),
      UnlinkFrame(2, 1, In, 1) }

\* endpoint 0, setup type Class (bmRequestType 161, 33) or Vendor (192);
\* bRequest 32 and recipient 5 (bmRequestType 37) are outside the enums of
\* SetupRequest
ClassFrames ==
    { SubmitFrame(1, 1, Out, 0, 2, 33, 9, 768, 2, 2, OutData),
      SubmitFrame(2, 65538, In, 0, 64, 161, 1, 768, 2, 64, << >>),
      SubmitFrame(1, 1, In, 0, 64, 192, 6, 0, 0, 64, << >>),
      SubmitFrame(1, 1, In, 0, 64, 192, 32, 0, 0, 64, << >>),
      SubmitFrame(1, 1, Out, 0, 0, 37, 9, 0, 0, 0, << >>) }

\* a control transfer on endpoint 3: the setup bytes of the first frame of
\* ClassFrames, sent to a non-zero endpoint
ControlEpXFrames ==
    { SubmitFrame(1, 1, Out, 3, 2, 33, 9, 768, 2, 2, OutData) }

\* frames the reader cannot decode: unknown command, invalid direction
BadFrames ==
    { [ UnlinkFrame(1, 1, Out, 1) EXCEPT !.command = 9 ],
      [ UnlinkFrame(1, 1, Out, 1) EXCEPT !.direction = 2 ] }

\* endpoint 0, SET_CONFIGURATION to the device in both header directions
\* and with a payload, GET_STATUS, GET_CONFIGURATION, SET_ADDRESS
ConfigFrames ==
    { SubmitFrame(1, 1, Out, 0, 0, 0, SetConfiguration, v, 0, 0, << >>) :
        v \in {1, 2, 3, 257} }
    \cup { SubmitFrame(1, 1, In, 0, 0, 0, SetConfiguration, v, 0, 0, << >>) :
             v \in {1, 3} }
    \cup { SubmitFrame(1, 1, Out, 0, 2, 0, SetConfiguration, 1, 0, 2, OutData),
           SubmitFrame(1, 1, In, 0, 2, 128, GetStatus, 0, 0, 2, << >>),
           SubmitFrame(1, 1, In, 0, 1, 128, 8, 0, 0, 1, << >>),
           SubmitFrame(1, 1, Out, 0, 0, 0, 5, 7, 0, 0, << >>) }

\* endpoint 0, GET_DESCRIPTOR to the device, by (wValue, wLength)
DescriptorFrames ==
    { SubmitFrame(1, 1, In, 0, x[2], 128, GetDescriptor, x[1], 0, x[2], << >>) :
        x \in { << 256, 64 >>, << 256, 0 >>, << 512, 9 >>, << 517, 64 >>,
                << 769, 64 >>, << 1536, 64 >>, << 2560, 64 >>, << 1024, 64 >>,
                << 2304, 64 >> } }
    \cup { SubmitFrame(2, 65538, In, 0, 64, 128, GetDescriptor, 256, 0, 64, << >>) }

\* endpoint 0, standard requests to an interface (bmRequestType 129 / 1) or
\* to an endpoint (130); GET_DESCRIPTOR by (wValue, wIndex, wLength)
StdIfaceFrames ==
    { SubmitFrame(1, 1, In, 0, x[3], 129, GetDescriptor, x[1], x[2], x[3], << >>) :
        x \in { << 8704, 0, 2 >>, << 8704, 5, 64 >>, << 8705, 0, 64 >>,
                << 8706, 0, 64 >>, << 8448, 0, 64 >>, << 256, 0, 64 >> } }
    \cup { SubmitFrame(1, 1, In, 0, 2, 129, GetStatus, 0, 0, 2, << >>),
           SubmitFrame(1, 1, Out, 0, 0, 1, 11, 0, 0, 0, << >>),
           SubmitFrame(1, 1, In, 0, 2, 130, GetStatus, 0, 0, 2, << >>) }

\* The kernel side sends the frames of one workload in a behaviour.
Workloads == { "transfers", "class", "config", "descriptors", "interface",
               "restart", "stalled", "control" }

Frames(w) ==
    IF w = "transfers" THEN EpFrames \cup { UnlinkFrame(1, 1, Out, 2) }
    ELSE IF w = "class" THEN ClassFrames
    ELSE IF w = "control" THEN ControlEpXFrames
    ELSE IF w = "restart"
    THEN { SubmitFrame(2, 65538, In, 3, 64, 0, 0, 0, 0, 0, << >>),
           UnlinkFrame(1, 1, Out, 2) }
    ELSE IF w = "stalled"
    THEN { SubmitFrame(1, 1, In, 3, 64, 0, 0, 0, 0, 0, << >>),
           UnlinkFrame(2, 1, Out, 1) }
    ELSE IF w = "config" THEN ConfigFrames \cup UnlinkFrames
    ELSE IF w = "descriptors"
    THEN DescriptorFrames \cup BadFrames
         \cup { SubmitFrame(1, 1, Out, 0, 0, 0, SetConfiguration, 1, 0, 0, << >>) }
    ELSE StdIfaceFrames
         \cup { SubmitFrame(1, 1, Out, 0, 0, 0, SetConfiguration, v, 0, 0, << >>) :
                  v \in {1, 2} }

\* data the caller passes to Reply::from_xfer
ReplyData == { << >>, << 1, 2, 3 >> }

\* ports get_next_port_number may return
FreePorts == { 0 }

\* ------------------------------------------------------------------------
\* State
\* ------------------------------------------------------------------------

VARIABLES
    info,            \* VirtualUSBDevice.info
    port,            \* VirtualUSBDevice.port (Option)
    current_config,  \* VirtualUSBDevice.current_config (Option)
    replies,         \* VirtualUSBDevice.replies: "None" or "Some"
    commands,        \* VirtualUSBDevice.commands: "None" or "Some"
    cmd_chan,        \* content of the command channel (reader -> engine)
    reply_chan,      \* content of the reply channel (engine -> writer)
    reader,          \* reader worker: "none", "running" or "exited"
    writer,          \* writer worker: "none", "running" or "exited"
    nframes,         \* frames taken from the socket so far
    workload,        \* the workload the kernel side sends
    held,            \* Xfers the caller got and has not answered yet
    engine,          \* "alive", or "panicked" once a call has panicked
    rejected,        \* the frame ReadHandler::read returned Err on (Option)
    old_readers,     \* reader workers of replaced sessions that still run
    old_writers,     \* writer workers of replaced sessions that still run
    builder,         \* the builders a caller is using, and what it added
    short_write,     \* the latest reply written short and reported as written (Option)
    last             \* the latest call of the public API and its result

vars == << info, port, current_config, replies, commands, cmd_chan,
           reply_chan, reader, writer, nframes, workload, held, engine,
           rejected, old_readers, old_writers, builder, short_write, last >>

\* The device has been constructed: the builders are gone
NoBuilders == [ target |-> "built" ]

\* The builders in the hands of a caller: target says which object the
\* caller is building; the
\* *_added fields and called record the calls made so far
Builders(target) ==
    [ target |-> target,
      hid |-> HidInterface_new,
      config |-> ConfigurationBuilder_new,
      device |-> VirtualUSBDeviceBuilder_new(10462, 4613),
      reports_added |-> 0,
      endpoints_added |-> 0,
      interfaces_added |-> << >>,
      configs_added |-> 0,
      called |-> {} ]

Call(op, result, err, cmd, xfer, sent, before) ==
    [ op |-> op, result |-> result, err |-> err, cmd |-> cmd, xfer |-> xfer,
      sent |-> sent, before |-> before ]

Init ==
    /\ info = TheInfo
    /\ workload \in Workloads
    /\ port = << >>
    /\ current_config = << >>
    /\ replies = "None"
    /\ commands = "None"
    /\ cmd_chan = << >>
    /\ reply_chan = << >>
    /\ reader = "none"
    /\ writer = "none"
    /\ nframes = 0
    /\ held = {}
    /\ engine = "alive"
    /\ rejected = << >>
    /\ old_readers = 0
    /\ old_writers = 0
    /\ builder = NoBuilders
    /\ short_write = << >>
    /\ last = Call("new", "Ok", "", << >>, << >>, << >>, << >>)

\* ------------------------------------------------------------------------
\* Public API of VirtualUSBDevice
\* ------------------------------------------------------------------------

\* The caller calls start() on a device whose workers run only in the
\* workload "restart"; in the other workloads it starts a session when the
\* workers of the earlier one have exited.
CallerStarts == workload = "restart" \/ ( reader # "running" /\ writer # "running" )

\* start(), on a device in any state: the channel ends of an earlier
\* session are replaced, and its workers, when they still run, go on
\* running with their own ends.  outcome is the place where start() returns:
\*   "early"  socketpair_stream, driver.open or get_next_port_number failed
\*   "attach" attach_device2 failed
\*   "clone1" the first try_clone failed (channels stored, no worker spawned)
\*   "clone2" the second try_clone failed (reader spawned, writer not)
\*   "ok"     both workers spawned
start ==
    /\ engine = "alive"
    /\ CallerStarts
    /\ \E outcome \in {"early", "attach", "clone1", "clone2", "ok"},
          p \in FreePorts :
         /\ port' = IF outcome = "early" THEN port ELSE << p >>
         /\ IF outcome \in {"early", "attach"}
            THEN UNCHANGED << replies, commands, cmd_chan, reply_chan,
                              reader, writer, old_readers, old_writers >>
            ELSE /\ old_readers' = old_readers + IF reader = "running" THEN 1 ELSE 0
                 /\ old_writers' = old_writers + IF writer = "running" THEN 1 ELSE 0
                 /\ old_readers' <= MaxOldWorkers
                 /\ old_writers' <= MaxOldWorkers
                 /\ replies' = "Some"
                 /\ commands' = "Some"
                 /\ cmd_chan' = << >>
                 /\ reply_chan' = << >>
                 /\ reader' = IF outcome = "clone1" THEN "none" ELSE "running"
                 /\ writer' = IF outcome = "ok" THEN "running" ELSE "none"
         /\ last' = Call("start", IF outcome = "ok" THEN "Ok" ELSE "Err",
                         IF outcome = "ok" THEN "" ELSE outcome,
                         << >>, << >>, << >>, current_config)
    /\ UNCHANGED << short_write, builder, info, workload, current_config, nframes, held, engine,
                    rejected >>

\* stop() that also forgets the selected configuration
stop_deconfigures ==
    /\ engine = "alive"
    /\ replies' = "None"
    /\ commands' = "None"
    /\ cmd_chan' = << >>
    /\ current_config' = << >>
    /\ last' = Call("stop", "Ok", "", << >>, << >>, << >>, current_config)
    /\ UNCHANGED << short_write, builder, old_readers, old_writers, info, workload, port, reply_chan, reader, writer,
                    nframes, held, engine, rejected >>

\* stop() that also gives up the port
stop_forgets_port ==
    /\ engine = "alive"
    /\ replies' = "None"
    /\ commands' = "None"
    /\ cmd_chan' = << >>
    /\ port' = << >>
    /\ last' = Call("stop", "Ok", "", << >>, << >>, << >>, current_config)
    /\ UNCHANGED << short_write, builder, old_readers, old_writers, info, workload, current_config, reply_chan, reader, writer,
                    nframes, held, engine, rejected >>

\* stop(): both channel endpoints of the device are dropped; what is still
\* in the command channel is dropped with its receiver.
stop ==
    /\ engine = "alive"
    /\ replies' = "None"
    /\ commands' = "None"
    /\ cmd_chan' = << >>
    /\ last' = Call("stop", "Ok", "", << >>, << >>, << >>, current_config)
    /\ UNCHANGED << short_write, builder, old_readers, old_writers, info, workload, port, current_config, reply_chan, reader, writer,
                    nframes, held, engine, rejected >>

\* The part read() and blocking_read() share once a command was received:
\* handle_command on the head of the command channel.  A panic unwinds the
\* caller and drops the device.
Handle(op) ==
    LET cmd == Head(cmd_chan)
        o == handle_command(cmd, current_config, info, writer = "running")
    IN  /\ current_config' = o.config
        /\ reply_chan' = reply_chan \o o.sent
        /\ held' = held \cup { o.xfer[i] : i \in 1..Len(o.xfer) }
        /\ last' = Call(op, o.result, o.err, << cmd >>, o.xfer, o.sent,
                        current_config)
        /\ IF o.result = "Panic"
           THEN /\ engine' = "panicked"
                /\ replies' = "None"
                /\ commands' = "None"
                /\ cmd_chan' = << >>
           ELSE /\ cmd_chan' = Tail(cmd_chan)
                /\ UNCHANGED << engine, replies, commands >>
        /\ UNCHANGED << short_write, builder, old_readers, old_writers, info, workload, port, reader, writer, nframes, rejected >>

NoCommand(op, result, err) ==
    /\ last' = Call(op, result, err, << >>, << >>, << >>, current_config)
    /\ UNCHANGED << short_write, builder, old_readers, old_writers, info, workload, port, current_config, replies, commands, cmd_chan,
                    reply_chan, reader, writer, nframes, held, engine, rejected >>

\* read() taking an empty channel for a disconnected one
read_disconnected ==
    /\ engine = "alive"
    /\ IF commands = "None" THEN NoCommand("read", "Err", "NotStarted")
       ELSE IF cmd_chan # << >> THEN Handle("read")
       ELSE NoCommand("read", "Err", "ReaderGone")

read ==
    /\ engine = "alive"
    /\ IF commands = "None" THEN NoCommand("read", "Err", "NotStarted")
       ELSE IF cmd_chan # << >> THEN Handle("read")
       ELSE IF reader = "running" THEN NoCommand("read", "Ok", "")
       ELSE NoCommand("read", "Err", "ReaderGone")

\* blocking_read() that goes on waiting when the sender of the channel is
\* gone
blocking_read_waits ==
    /\ engine = "alive"
    /\ IF commands = "None" THEN NoCommand("blocking_read", "Err", "NotStarted")
       ELSE cmd_chan # << >> /\ Handle("blocking_read")

\* blocking_read() does not return while the channel is empty and its
\* sender is alive
blocking_read ==
    /\ engine = "alive"
    /\ IF commands = "None" THEN NoCommand("blocking_read", "Err", "NotStarted")
       ELSE IF cmd_chan # << >> THEN Handle("blocking_read")
       ELSE /\ reader # "running"
            /\ NoCommand("blocking_read", "Err", "ReaderGone")

\* write() that sends without looking whether the device is started
write_unstarted ==
    /\ engine = "alive"
    /\ \E xfer \in held, data \in ReplyData :
         /\ held' = held \ { xfer }
         /\ reply_chan' = Append(reply_chan, Reply_from_xfer(xfer, data))
         /\ last' = Call("write", "Ok", "", << >>, << xfer >>,
                         << Reply_from_xfer(xfer, data) >>, current_config)
    /\ UNCHANGED << short_write, builder, old_readers, old_writers, info, workload, port, current_config, replies, commands, cmd_chan,
                    reader, writer, nframes, engine, rejected >>

\* write() that refuses the reply for a Transfer whose seqnum the unlink
\* handled by the latest call targeted
write_refuses_unlinked ==
    /\ engine = "alive"
    /\ \E xfer \in held, data \in ReplyData :
         LET r == Reply_from_xfer(xfer, data)
             unlinked == /\ last.cmd # << >>
                         /\ last.cmd[1].variant = USBIP_CMD_UNLINK
                         /\ last.cmd[1].unlink_seqnum = xfer.cmd.base.seqnum
             ok == replies = "Some" /\ writer = "running" /\ ~unlinked
         IN  /\ held' = held \ { xfer }
             /\ reply_chan' = IF ok THEN Append(reply_chan, r) ELSE reply_chan
             /\ last' = Call("write", IF ok THEN "Ok" ELSE "Err",
                             IF ok THEN "" ELSE "Unlinked",
                             << >>, << xfer >>, IF ok THEN << r >> ELSE << >>,
                             current_config)
    /\ UNCHANGED << short_write, builder, old_readers, old_writers, info, workload, port, current_config, replies, commands, cmd_chan,
                    reader, writer, nframes, engine, rejected >>

\* write(Reply::from_xfer(xfer, data)) for an Xfer the caller holds
write ==
    /\ engine = "alive"
    /\ \E xfer \in held, data \in ReplyData :
         LET r == Reply_from_xfer(xfer, data)
             ok == replies = "Some" /\ writer = "running"
         IN  /\ held' = held \ { xfer }
             /\ reply_chan' = IF ok THEN Append(reply_chan, r) ELSE reply_chan
             /\ last' = Call("write", IF ok THEN "Ok" ELSE "Err",
                             IF ok THEN ""
                             ELSE IF replies = "None" THEN "NotStarted"
                             ELSE "WriterGone",
                             << >>, << xfer >>, IF ok THEN << r >> ELSE << >>,
                             current_config)
    /\ UNCHANGED << short_write, builder, old_readers, old_writers, info, workload, port, current_config, replies, commands, cmd_chan,
                    reader, writer, nframes, engine, rejected >>

\* ------------------------------------------------------------------------
\* Workers
\* ------------------------------------------------------------------------

\* ReadHandler::run, one iteration with a frame on the socket
ReadHandler_run ==
    /\ reader = "running"
    /\ nframes < MaxFrames
    /\ \E frame \in Frames(workload) :
         LET r == ReadHandler_read(frame, nframes + 1)
         IN  IF r.ok /\ commands = "Some"
             THEN /\ cmd_chan' = Append(cmd_chan, r.cmd)
                  /\ UNCHANGED << reader, rejected >>
             ELSE /\ reader' = "exited"
                  /\ rejected' = IF r.ok THEN rejected ELSE << frame >>
                  /\ UNCHANGED cmd_chan
    /\ nframes' = nframes + 1
    /\ UNCHANGED << short_write, builder, old_readers, old_writers, info, workload, port, current_config, replies, commands, reply_chan,
                    writer, held, engine, last >>

\* ReadHandler::run whose exit takes the queued commands with it
ReadHandler_eof_drops_queue ==
    /\ reader = "running"
    /\ reader' = "exited"
    /\ cmd_chan' = << >>
    /\ UNCHANGED << short_write, builder, old_readers, old_writers, info, workload, port, current_config, replies, commands,
                    reply_chan, writer, nframes, held, engine, rejected, last >>

\* ReadHandler::run, read_exact fails (end of stream or socket error)
ReadHandler_eof ==
    /\ reader = "running"
    /\ reader' = "exited"
    /\ UNCHANGED << short_write, builder, old_readers, old_writers, info, workload, port, current_config, replies, commands, cmd_chan,
                    reply_chan, writer, nframes, held, engine, rejected, last >>

\* The kernel side stops reading its end of the socket, or a signal
\* interrupts the writer, only in the workload "stalled": there a
\* socket.write() may take fewer bytes than it was given and return Ok
SocketStalls == workload = "stalled"

\* WriteHandler::write(reply): what the two socket.write() calls may do.
\* header_put and payload_put are the bytes the stream received; a
\* socket.write() that returns Ok(n) with n below the length given is not an
\* error for WriteHandler::write.
WriteOutcomes(r) ==
    { [ reply |-> r, result |-> "Ok", header_put |-> USBIP_CMD_SIZE,
        payload_put |-> Len(r.payload) ],
      [ reply |-> r, result |-> "Err", header_put |-> 0, payload_put |-> 0 ] }
    \cup ( IF r.payload # << >>
           THEN { [ reply |-> r, result |-> "Err",
                    header_put |-> USBIP_CMD_SIZE, payload_put |-> 0 ] }
           ELSE {} )
    \cup ( IF SocketStalls
           THEN { [ reply |-> r, result |-> "Ok",
                    header_put |-> USBIP_CMD_SIZE - 1,
                    payload_put |-> Len(r.payload) ] }
           ELSE {} )
    \cup ( IF SocketStalls /\ r.payload # << >>
           THEN { [ reply |-> r, result |-> "Ok",
                    header_put |-> USBIP_CMD_SIZE,
                    payload_put |-> Len(r.payload) - 1 ] }
           ELSE {} )

\* The stream received the whole reply
WroteAll(outcome) ==
    /\ outcome.header_put = USBIP_CMD_SIZE
    /\ outcome.payload_put = Len(outcome.reply.payload)

\* WriteHandler::run that takes the newest reply of the channel first
WriteHandler_run_newest_first ==
    /\ writer = "running"
    /\ reply_chan # << >>
    /\ \E outcome \in WriteOutcomes(reply_chan[Len(reply_chan)]) :
         /\ IF outcome.result = "Ok"
            THEN /\ reply_chan' = SubSeq(reply_chan, 1, Len(reply_chan) - 1)
                 /\ UNCHANGED writer
            ELSE /\ reply_chan' = << >>
                 /\ writer' = "exited"
         /\ short_write' = IF outcome.result = "Ok" /\ ~ WroteAll(outcome)
                           THEN << outcome >> ELSE short_write
    /\ UNCHANGED << builder, old_readers, old_writers, info, workload, port, current_config, replies, commands, cmd_chan,
                    reader, nframes, held, engine, rejected, last >>

\* WriteHandler::run, one iteration with a reply in the channel; a failed
\* socket write ends the worker and drops the channel with what is in it
WriteHandler_run ==
    /\ writer = "running"
    /\ reply_chan # << >>
    /\ \E outcome \in WriteOutcomes(Head(reply_chan)) :
         /\ IF outcome.result = "Ok"
            THEN /\ reply_chan' = Tail(reply_chan)
                 /\ UNCHANGED writer
            ELSE /\ reply_chan' = << >>
                 /\ writer' = "exited"
         /\ short_write' = IF outcome.result = "Ok" /\ ~ WroteAll(outcome)
                           THEN << outcome >> ELSE short_write
    /\ UNCHANGED << builder, old_readers, old_writers, info, workload, port, current_config, replies, commands, cmd_chan,
                    reader, nframes, held, engine, rejected, last >>

\* WriteHandler::run, recv() fails: the channel is empty and its sender gone
WriteHandler_closed ==
    /\ writer = "running"
    /\ reply_chan = << >>
    /\ replies = "None"
    /\ writer' = "exited"
    /\ UNCHANGED << short_write, builder, old_readers, old_writers, info, workload, port, current_config, replies, commands, cmd_chan,
                    reply_chan, reader, nframes, held, engine, rejected, last >>

\* The reader of a replaced session exits: read_exact fails on its socket, or
\* it reads a frame and finds the receiver of its channel dropped
OldReadHandler_exit ==
    /\ old_readers > 0
    /\ old_readers' = old_readers - 1
    /\ UNCHANGED << short_write, builder, old_writers, info, workload, port, current_config, replies,
                    commands, cmd_chan, reply_chan, reader, writer, nframes, held,
                    engine, rejected, last >>

\* The writer of a replaced session exits: it has written what was left in
\* its channel, whose sender is dropped, and recv() fails
OldWriteHandler_exit ==
    /\ old_writers > 0
    /\ old_writers' = old_writers - 1
    /\ UNCHANGED << short_write, builder, old_readers, info, workload, port, current_config, replies,
                    commands, cmd_chan, reply_chan, reader, writer, nframes, held,
                    engine, rejected, last >>

Next ==
    \/ start
    \/ stop
    \/ read
    \/ blocking_read
    \/ write
    \/ ReadHandler_run
    \/ ReadHandler_eof
    \/ WriteHandler_run
    \/ WriteHandler_closed
    \/ OldReadHandler_exit
    \/ OldWriteHandler_exit

Spec == Init /\ [][Next]_vars

\* ------------------------------------------------------------------------
\* The builders (usb/hid.rs, usb.rs, virtual_usb.rs) in the hands of a caller
\* ------------------------------------------------------------------------

\* what the caller passes to the builders
BuilderReportDesc == ReportDescA
BuilderEndpoint == [ EndpointDescriptor_new EXCEPT !.b_endpoint_address_direction = 1 ]
BuilderConfigs == { ConfigA, ConfigB }
BuilderLangs == << 1033 >>
BuilderManufacturer == << 86, 97 >>
BuilderProduct == << 83 >>
BuilderSerial == << 49 >>
BuilderStrings == { << << 120 >> >>, << << 120 >>, << 121 >> >> }

\* no device is involved while the caller builds
NoDevice ==
    UNCHANGED << info, port, current_config, replies, commands, cmd_chan,
                 reply_chan, reader, writer, nframes, workload, held, engine,
                 rejected, old_readers, old_writers, short_write, last >>

BuilderInit ==
    /\ builder \in { Builders("configuration"), Builders("device") }
    /\ short_write = << >>
    /\ info = TheInfo
    /\ workload = "transfers"
    /\ port = << >>
    /\ current_config = << >>
    /\ replies = "None"
    /\ commands = "None"
    /\ cmd_chan = << >>
    /\ reply_chan = << >>
    /\ reader = "none"
    /\ writer = "none"
    /\ nframes = 0
    /\ held = {}
    /\ engine = "alive"
    /\ rejected = << >>
    /\ old_readers = 0
    /\ old_writers = 0
    /\ last = Call("new", "Ok", "", << >>, << >>, << >>, << >>)

\* HidInterfaceBuilder::new()
hid_new ==
    /\ builder.target = "configuration"
    /\ builder.hid # HidInterface_new
    /\ builder' = [ builder EXCEPT !.hid = HidInterface_new,
                                   !.reports_added = 0,
                                   !.endpoints_added = 0 ]
    /\ NoDevice

\* HidInterfaceBuilder::report_descriptor(report_desc)
hid_report_descriptor ==
    /\ builder.target = "configuration"
    /\ builder.reports_added < MaxReportDescriptors
    /\ builder' = [ builder EXCEPT
                      !.hid = HidInterfaceBuilder_report_descriptor(@, BuilderReportDesc),
                      !.reports_added = @ + 1 ]
    /\ NoDevice

\* HidInterfaceBuilder::endpoint_descriptor(descriptor)
hid_endpoint_descriptor ==
    /\ builder.target = "configuration"
    /\ builder.endpoints_added < MaxEndpointDescriptors
    /\ builder' = [ builder EXCEPT
                      !.hid = HidInterfaceBuilder_endpoint_descriptor(@, BuilderEndpoint),
                      !.endpoints_added = @ + 1 ]
    /\ NoDevice

\* ConfigurationBuilder::interface(hid_builder.build())
config_interface ==
    /\ builder.target = "configuration"
    /\ Len(builder.interfaces_added) < MaxInterfaces
    /\ builder' = [ builder EXCEPT
                      !.config = ConfigurationBuilder_interface(@, builder.hid),
                      !.interfaces_added = Append(@, builder.hid) ]
    /\ NoDevice

\* VirtualUSBDeviceBuilder::configuration(config)
device_configuration ==
    /\ builder.target = "device"
    /\ builder.configs_added < MaxConfigurations
    /\ \E config \in BuilderConfigs :
         builder' = [ builder EXCEPT
                        !.device = VirtualUSBDeviceBuilder_configuration(@, config),
                        !.configs_added = @ + 1 ]
    /\ NoDevice

\* VirtualUSBDeviceBuilder::supported_langs(langs)
device_supported_langs ==
    /\ builder.target = "device"
    /\ Len(builder.device.string_descs) < MaxStrings
    /\ builder' = [ builder EXCEPT
                      !.device = VirtualUSBDeviceBuilder_supported_langs(@, BuilderLangs),
                      !.called = @ \cup { "supported_langs" } ]
    /\ NoDevice

\* VirtualUSBDeviceBuilder::manufacturer(manufacturer)
device_manufacturer ==
    /\ builder.target = "device"
    /\ Len(builder.device.string_descs) < MaxStrings
    /\ builder' = [ builder EXCEPT
                      !.device = VirtualUSBDeviceBuilder_manufacturer(@, BuilderManufacturer),
                      !.called = @ \cup { "manufacturer" } ]
    /\ NoDevice

\* VirtualUSBDeviceBuilder::product(product)
device_product ==
    /\ builder.target = "device"
    /\ Len(builder.device.string_descs) < MaxStrings
    /\ builder' = [ builder EXCEPT
                      !.device = VirtualUSBDeviceBuilder_product(@, BuilderProduct),
                      !.called = @ \cup { "product" } ]
    /\ NoDevice

\* VirtualUSBDeviceBuilder::serial(serial)
device_serial ==
    /\ builder.target = "device"
    /\ Len(builder.device.string_descs) < MaxStrings
    /\ builder' = [ builder EXCEPT
                      !.device = VirtualUSBDeviceBuilder_serial(@, BuilderSerial),
                      !.called = @ \cup { "serial" } ]
    /\ NoDevice

\* VirtualUSBDeviceBuilder::strings(strings)
device_strings ==
    /\ builder.target = "device"
    /\ \E strings \in BuilderStrings :
         /\ Len(builder.device.string_descs) + Len(strings) <= MaxStrings
         /\ builder' = [ builder EXCEPT
                           !.device = VirtualUSBDeviceBuilder_strings(@, strings) ]
    /\ NoDevice

BuilderNext ==
    \/ hid_new
    \/ hid_report_descriptor
    \/ hid_endpoint_descriptor
    \/ config_interface
    \/ device_configuration
    \/ device_supported_langs
    \/ device_manufacturer
    \/ device_product
    \/ device_serial
    \/ device_strings

BuilderSpec == BuilderInit /\ [][BuilderNext]_vars


\* ------------------------------------------------------------------------
\* Properties
\* ------------------------------------------------------------------------

\* The replies that are in the reply channel or were pushed by the latest call
EnqueuedReplies ==
    { reply_chan[i] : i \in 1..Len(reply_chan) }
    \cup { last.sent[i] : i \in 1..Len(last.sent) }

\* A step in which read() or blocking_read() takes Head(cmd_chan) from the
\* command channel and handles it
Dequeue ==
    /\ cmd_chan # << >>
    /\ last' # last
    /\ last'.cmd = << Head(cmd_chan) >>

\* The latest call was a read() or blocking_read() that handled a command
Handled == last.op \in {"read", "blocking_read"} /\ last.cmd # << >>

C2_OutAckCountsPayload ==
    ( /\ Handled
      /\ last.result = "Ok"
      /\ last.cmd[1].variant = USBIP_CMD_SUBMIT
      /\ last.cmd[1].base.ep # 0
      /\ last.cmd[1].base.direction = Out )
    => /\ Len(last.sent) = 1
       /\ last.sent[1].variant = USBIP_RET_SUBMIT
       /\ last.sent[1].auto
       /\ last.sent[1].actual_length = Len(last.cmd[1].payload)
       /\ last.sent[1].payload = << >>
       /\ Len(last.xfer) = 1
       /\ last.xfer[1].ep = last.cmd[1].base.ep
       /\ last.xfer[1].cmd.base.direction = Out
       /\ last.xfer[1].data = last.cmd[1].payload

\* C3 as stated: every CMD_UNLINK taken from the command channel of a
\* session whose start() spawned both workers is answered with exactly one
\* RET_UNLINK that has the unlink's own seqnum and status -104, and no
\* Transfer is returned.
C3_UnlinkAlwaysAcknowledged ==
    ( /\ Handled
      /\ last.cmd[1].variant = USBIP_CMD_UNLINK
      /\ writer # "none" )
    => /\ Len(last.sent) = 1
       /\ last.sent[1].variant = USBIP_RET_UNLINK
       /\ last.sent[1].base.seqnum = last.cmd[1].base.seqnum
       /\ last.sent[1].status = -104
       /\ last.xfer = << >>

\* C3 amended: while the writer worker is running, every CMD_UNLINK taken
\* from the command channel appends exactly one RET_UNLINK to the reply
\* channel, with the unlink's own seqnum and status -104; the call returns
\* Ok without a Transfer.
C3_UnlinkAcknowledgedWhileWriterRuns ==
    [][ ( /\ Dequeue
          /\ Head(cmd_chan).variant = USBIP_CMD_UNLINK
          /\ writer = "running" )
        => /\ last'.result = "Ok"
           /\ last'.xfer = << >>
           /\ held' = held
           /\ Len(reply_chan') = Len(reply_chan) + 1
           /\ SubSeq(reply_chan', 1, Len(reply_chan)) = reply_chan
           /\ reply_chan'[Len(reply_chan')].variant = USBIP_RET_UNLINK
           /\ reply_chan'[Len(reply_chan')].base.command = USBIP_RET_UNLINK
           /\ reply_chan'[Len(reply_chan')].base.seqnum = Head(cmd_chan).base.seqnum
           /\ reply_chan'[Len(reply_chan')].status = -104 ]_vars

\* C3 witness: with a configuration selected, an unlink with seqnum 1 that
\* targets seqnum 2 was answered with a RET_UNLINK.
C3_Witness ==
    /\ Handled
    /\ last.cmd[1].variant = USBIP_CMD_UNLINK
    /\ last.cmd[1].base.seqnum = 1
    /\ last.cmd[1].unlink_seqnum = 2
    /\ current_config # << >>
    /\ Len(last.sent) = 1
    /\ last.sent[1].variant = USBIP_RET_UNLINK
    /\ last.sent[1].status = -104

\* A CMD_SUBMIT on endpoint 0 whose setup type is not Standard
ClassOrVendorOnEp0(cmd) ==
    /\ cmd.variant = USBIP_CMD_SUBMIT
    /\ cmd.base.ep = 0
    /\ cmd.setup.bm_request_type_kind # Standard

\* C4 as stated: no reply that answers a Class or Vendor CMD_SUBMIT on
\* endpoint 0, of either direction, was enqueued by the engine itself.
C4_NoAutomaticReplyForClassVendor ==
    \A r \in EnqueuedReplies : ClassOrVendorOnEp0(r.origin) => ~r.auto

\* C4 amended: for a Class or Vendor CMD_SUBMIT on endpoint 0 with direction
\* IN the engine enqueues no reply of its own, every reply answering it came
\* through write(); with direction OUT the engine enqueues exactly one
\* automatic RET_SUBMIT whenever it hands the Transfer to the caller.
C4_AutomaticReplyOnlyForOut ==
    /\ \A r \in EnqueuedReplies :
           ( ClassOrVendorOnEp0(r.origin) /\ r.origin.base.direction = In )
           => ( ~r.auto /\ r.variant = USBIP_RET_SUBMIT )
    /\ \A i, j \in 1..Len(reply_chan) :
           ( /\ ClassOrVendorOnEp0(reply_chan[i].origin)
             /\ reply_chan[i].origin = reply_chan[j].origin
             /\ reply_chan[i].auto
             /\ reply_chan[j].auto )
           => i = j
    /\ ( /\ Handled
         /\ ClassOrVendorOnEp0(last.cmd[1])
         /\ last.cmd[1].base.direction = Out
         /\ last.xfer # << >> )
       => /\ Len(last.sent) = 1
          /\ last.sent[1].auto
          /\ last.sent[1].variant = USBIP_RET_SUBMIT
          /\ last.sent[1].base.seqnum = last.cmd[1].base.seqnum

\* C4 witness: the reply channel holds the automatic RET_SUBMIT of a Class
\* OUT request and the caller's RET_SUBMIT for a Class IN request.
C4_Witness ==
    \E i, j \in 1..Len(reply_chan) :
        /\ ClassOrVendorOnEp0(reply_chan[i].origin)
        /\ reply_chan[i].origin.base.direction = Out
        /\ reply_chan[i].auto
        /\ ClassOrVendorOnEp0(reply_chan[j].origin)
        /\ reply_chan[j].origin.base.direction = In
        /\ ~reply_chan[j].auto

\* C5: the reader never stops on a CMD_SUBMIT for endpoint 0 whose setup
\* type is Class or Vendor, whatever its bRequest and recipient, and every
\* such command that is handled returns a Transfer carrying its setup.
C5_ClassVendorReachesCaller ==
    /\ \A i \in 1..Len(rejected) :
           ~( /\ rejected[i].command = USBIP_CMD_SUBMIT
              /\ rejected[i].ep = 0
              /\ rejected[i].direction \in {Out, In}
              /\ (rejected[i].setup.bm_request_type \div 32) % 4 \in {1, 2} )
    /\ ( /\ Handled
         /\ ClassOrVendorOnEp0(last.cmd[1])
         /\ last.result = "Ok" )
       => /\ Len(last.xfer) = 1
          /\ last.xfer[1].cmd.setup = last.cmd[1].setup

\* A CMD_SUBMIT with direction IN on an endpoint 1 .. ENDPOINT_MAX_COUNT - 1
InOnEpX(cmd) ==
    /\ cmd.variant = USBIP_CMD_SUBMIT
    /\ cmd.base.ep \in 1..(ENDPOINT_MAX_COUNT - 1)
    /\ cmd.base.direction = In

C7_ReplyLengthAndPayload ==
    \A r \in EnqueuedReplies :
        r.variant = USBIP_RET_SUBMIT =>
            /\ r.origin.base.direction = In
               => ( r.actual_length = Len(r.data) /\ r.payload = r.data )
            /\ r.origin.base.direction = Out => r.payload = << >>

\* C7 witness: the reply channel holds an automatic IN reply with the 9
\* bytes asked of a configuration descriptor and the reply to an OUT request.
C7_Witness ==
    \E i, j \in 1..Len(reply_chan) :
        /\ reply_chan[i].variant = USBIP_RET_SUBMIT
        /\ reply_chan[i].origin.base.direction = In
        /\ reply_chan[i].auto
        /\ Len(reply_chan[i].payload) = 9
        /\ reply_chan[j].variant = USBIP_RET_SUBMIT
        /\ reply_chan[j].origin.base.direction = Out

\* C8: handling a command ends with a value returned to the caller, Ok or an
\* error, and the engine stays usable: no command aborts it.
C8_FailuresAreReturned ==
    /\ engine = "alive"
    /\ Handled => last.result \in {"Ok", "Err"}

\* SET_CONFIGURATION: a standard request to the device on endpoint 0 with
\* bRequest 9
IsSetConfiguration(cmd) ==
    /\ cmd.variant = USBIP_CMD_SUBMIT
    /\ cmd.base.ep = 0
    /\ cmd.setup.bm_request_type_kind = Standard
    /\ cmd.setup.bm_request_type_recipient = Device
    /\ cmd.setup.b_request = SetConfiguration

\* The configurations of the device info whose bConfigurationValue is the
\* low byte of the command's wValue
NamedConfigurations(cmd) ==
    { info.configs[i] : i \in { k \in 1..Len(info.configs) :
        info.configs[k].conf_desc.b_configuration_value
            = cmd.setup.w_value % 256 } }

\* C9: current_config leaves None only by a SET_CONFIGURATION that names a
\* configuration of the device info; every such SET_CONFIGURATION (handled
\* while the writer runs, sent without a payload) makes that configuration
\* the current one, also in place of an earlier one, and enqueues an empty
\* RET_SUBMIT with status 0.
C9_SetConfigurationSelectsAndAcknowledges ==
    [][ /\ ( current_config = << >> /\ current_config' # << >> )
           => /\ Dequeue
              /\ IsSetConfiguration(Head(cmd_chan))
              /\ NamedConfigurations(Head(cmd_chan)) # {}
        /\ ( /\ Dequeue
             /\ IsSetConfiguration(Head(cmd_chan))
             /\ NamedConfigurations(Head(cmd_chan)) # {}
             /\ Head(cmd_chan).transfer_buffer_length = 0
             /\ writer = "running" )
           => /\ current_config' # << >>
              /\ current_config'[1] \in NamedConfigurations(Head(cmd_chan))
              /\ last'.result = "Ok"
              /\ Len(reply_chan') = Len(reply_chan) + 1
              /\ SubSeq(reply_chan', 1, Len(reply_chan)) = reply_chan
              /\ reply_chan'[Len(reply_chan')].variant = USBIP_RET_SUBMIT
              /\ reply_chan'[Len(reply_chan')].base.seqnum
                     = Head(cmd_chan).base.seqnum
              /\ reply_chan'[Len(reply_chan')].status = 0
              /\ reply_chan'[Len(reply_chan')].actual_length = 0
              /\ reply_chan'[Len(reply_chan')].payload = << >> ]_vars

\* C10: a SET_CONFIGURATION whose low byte of wValue matches no
\* bConfigurationValue returns an error, enqueues no reply, returns no
\* Transfer and leaves current_config as it was.
C10_InvalidSetConfigurationChangesNothing ==
    [][ ( /\ Dequeue
          /\ IsSetConfiguration(Head(cmd_chan))
          /\ NamedConfigurations(Head(cmd_chan)) = {} )
        => /\ last'.result = "Err"
           /\ last'.xfer = << >>
           /\ last'.sent = << >>
           /\ reply_chan' = reply_chan
           /\ held' = held
           /\ current_config' = current_config ]_vars

\* C10 witness: with a configuration selected, a SET_CONFIGURATION for the
\* value 3 was refused and the configuration is still the one selected.
C10_Witness ==
    /\ Handled
    /\ IsSetConfiguration(last.cmd[1])
    /\ last.cmd[1].setup.w_value % 256 = 3
    /\ NamedConfigurations(last.cmd[1]) = {}
    /\ last.result = "Err"
    /\ last.before # << >>
    /\ current_config = last.before

\* GET_STATUS sent to the device: an IN standard request on endpoint 0 with
\* bRequest 0
IsDeviceGetStatus(cmd) ==
    /\ cmd.variant = USBIP_CMD_SUBMIT
    /\ cmd.base.ep = 0
    /\ cmd.base.direction = In
    /\ cmd.setup.bm_request_type_kind = Standard
    /\ cmd.setup.bm_request_type_recipient = Device
    /\ cmd.setup.b_request = GetStatus

\* C11: a GET_STATUS to the device, handled while a configuration is
\* current and the writer runs, enqueues one RET_SUBMIT whose payload is
\* the four bytes 01 00 00 00 when bit 6 (self-powered) of the current
\* configuration's bmAttributes is set, and 00 00 00 00 when it is not.
C11_GetStatusReportsSelfPowered ==
    [][ ( /\ Dequeue
          /\ IsDeviceGetStatus(Head(cmd_chan))
          /\ current_config # << >>
          /\ writer = "running" )
        => /\ Len(reply_chan') = Len(reply_chan) + 1
           /\ reply_chan'[Len(reply_chan')].variant = USBIP_RET_SUBMIT
           /\ reply_chan'[Len(reply_chan')].payload
                  = IF (current_config[1].conf_desc.bm_attributes \div 64) % 2 = 1
                    THEN << 1, 0, 0, 0 >>
                    ELSE << 0, 0, 0, 0 >> ]_vars

\* C12: a GET_STATUS to the device handled while no configuration is
\* current returns the no-configuration error, enqueues no reply, returns
\* no Transfer and leaves the device without a configuration.
C12_GetStatusWithoutConfigurationFails ==
    ( /\ Handled
      /\ IsDeviceGetStatus(last.cmd[1])
      /\ last.before = << >> )
    => /\ last.result = "Err"
       /\ last.err = "NoConfig"
       /\ last.sent = << >>
       /\ last.xfer = << >>
       /\ \A i \in 1..Len(reply_chan) : reply_chan[i].origin # last.cmd[1]
       /\ current_config = << >>

\* C12 witness: a GET_STATUS to the device was handled before any
\* SET_CONFIGURATION and was refused.
C12_Witness ==
    /\ Handled
    /\ IsDeviceGetStatus(last.cmd[1])
    /\ last.before = << >>
    /\ writer = "running"
    /\ last.err = "NoConfig"

\* GET_DESCRIPTOR sent to the device: an IN standard request on endpoint 0
\* with bRequest 6
IsDeviceGetDescriptor(cmd) ==
    /\ cmd.variant = USBIP_CMD_SUBMIT
    /\ cmd.base.ep = 0
    /\ cmd.base.direction = In
    /\ cmd.setup.bm_request_type_kind = Standard
    /\ cmd.setup.bm_request_type_recipient = Device
    /\ cmd.setup.b_request = GetDescriptor

\* descriptor type (high byte of wValue) and index (low byte) of a request
RequestedType(cmd) == (cmd.setup.w_value % 65536) \div 256

RequestedIndex(cmd) == cmd.setup.w_value % 256

\* The request names a descriptor the device has: Device, DeviceQualifier,
\* Configuration[index] or String[index] with the index in range
NamesPackedDescriptor(cmd) ==
    \/ RequestedType(cmd) \in { DT_Device, DT_DeviceQualifier }
    \/ RequestedType(cmd) = DT_Configuration /\ RequestedIndex(cmd) < Len(info.configs)
    \/ RequestedType(cmd) = DT_String /\ RequestedIndex(cmd) < Len(info.string_descs)

\* The packed bytes of the descriptor a request names
PackedDescriptor(cmd) ==
    IF RequestedType(cmd) = DT_Device THEN DeviceDescriptor_pack(info.device_desc)
    ELSE IF RequestedType(cmd) = DT_DeviceQualifier
    THEN DeviceQualifierDescriptor_pack(info.device_qualifier_desc)
    ELSE IF RequestedType(cmd) = DT_Configuration
    THEN Configuration_pack_to_vec(info.configs[RequestedIndex(cmd) + 1])
    ELSE StringDescriptor_pack_to_vec(info.string_descs[RequestedIndex(cmd) + 1]).bytes

\* C13: a GET_DESCRIPTOR to the device for Device, Configuration[index],
\* String[index] or DeviceQualifier, handled while the writer runs, enqueues
\* one RET_SUBMIT whose payload is the first min(wLength, length) bytes of
\* the packed descriptor and whose status is 1 when that payload is empty
\* and 0 when it is not, for every wLength, 0 included.
C13_GetDescriptorTruncatesAndSetsStatus ==
    [][ ( /\ Dequeue
          /\ IsDeviceGetDescriptor(Head(cmd_chan))
          /\ NamesPackedDescriptor(Head(cmd_chan))
          /\ writer = "running" )
        => LET cmd == Head(cmd_chan)
               n == Min(cmd.setup.w_length, Len(PackedDescriptor(cmd)))
               r == reply_chan'[Len(reply_chan')]
           IN  /\ Len(reply_chan') = Len(reply_chan) + 1
               /\ r.variant = USBIP_RET_SUBMIT
               /\ r.base.seqnum = cmd.base.seqnum
               /\ r.payload = SubSeq(PackedDescriptor(cmd), 1, n)
               /\ r.status = IF r.payload = << >> THEN 1 ELSE 0 ]_vars

\* A standard request to the device on endpoint 0 that the device handler
\* has no arm for
IsUnsupportedDeviceRequest(cmd) ==
    /\ cmd.variant = USBIP_CMD_SUBMIT
    /\ cmd.base.ep = 0
    /\ cmd.setup.bm_request_type_kind = Standard
    /\ cmd.setup.bm_request_type_recipient = Device
    /\ cmd.setup.b_request \notin { GetStatus, GetDescriptor, SetConfiguration }

\* C14: a GET_DESCRIPTOR to the device for the Debug descriptor type,
\* handled while the writer runs, enqueues one RET_SUBMIT with an empty
\* payload and status 1; a request the device handler does not support
\* enqueues no reply at all.
C14_DebugDescriptorAnsweredWithStatusOne ==
    [][ /\ ( /\ Dequeue
             /\ IsDeviceGetDescriptor(Head(cmd_chan))
             /\ RequestedType(Head(cmd_chan)) = DT_Debug
             /\ writer = "running" )
           => /\ Len(reply_chan') = Len(reply_chan) + 1
              /\ reply_chan'[Len(reply_chan')].variant = USBIP_RET_SUBMIT
              /\ reply_chan'[Len(reply_chan')].base.seqnum
                     = Head(cmd_chan).base.seqnum
              /\ reply_chan'[Len(reply_chan')].payload = << >>
              /\ reply_chan'[Len(reply_chan')].actual_length = 0
              /\ reply_chan'[Len(reply_chan')].status = 1
        /\ ( Dequeue /\ IsUnsupportedDeviceRequest(Head(cmd_chan)) )
           => /\ reply_chan' = reply_chan
              /\ last'.result = "Err" ]_vars

\* GET_DESCRIPTOR sent to an interface for a HID report descriptor: an IN
\* standard request on endpoint 0 with bRequest 6 and descriptor type 0x22
IsGetReportDescriptor(cmd) ==
    /\ cmd.variant = USBIP_CMD_SUBMIT
    /\ cmd.base.ep = 0
    /\ cmd.base.direction = In
    /\ cmd.setup.bm_request_type_kind = Standard
    /\ cmd.setup.bm_request_type_recipient = Interface
    /\ cmd.setup.b_request = GetDescriptor
    /\ RequestedType(cmd) = HID_Report

\* The request names report descriptor wValue.low of interface wIndex of
\* the configuration
NamesReportDescriptor(cmd, config) ==
    /\ cmd.setup.w_index < Len(config.interfaces)
    /\ RequestedIndex(cmd)
          < Len(config.interfaces[cmd.setup.w_index + 1].report_descriptors)

NamedReportDescriptor(cmd, config) ==
    config.interfaces[cmd.setup.w_index + 1].report_descriptors[RequestedIndex(cmd) + 1]

\* The step appends exactly one RET_SUBMIT for cmd with the payload data
AnswersWith(cmd, data) ==
    /\ Len(reply_chan') = Len(reply_chan) + 1
    /\ SubSeq(reply_chan', 1, Len(reply_chan)) = reply_chan
    /\ reply_chan'[Len(reply_chan')].variant = USBIP_RET_SUBMIT
    /\ reply_chan'[Len(reply_chan')].base.seqnum = cmd.base.seqnum
    /\ reply_chan'[Len(reply_chan')].payload = data
    /\ reply_chan'[Len(reply_chan')].actual_length = Len(data)

C16_TransferEndpointBelowSixteen ==
    /\ \A xfer \in held : xfer.ep < 16
    /\ ( /\ Handled
         /\ last.cmd[1].variant = USBIP_CMD_SUBMIT
         /\ last.cmd[1].base.ep >= 16 )
       => /\ last.result = "Err"
          /\ last.err = "InvalidEndpoint"
          /\ last.xfer = << >>
          /\ last.sent = << >>

\* C17: a Transfer the caller holds exposes a setup request exactly when
\* it came from endpoint 0; a Transfer of a non-zero endpoint exposes none.
C17_SetupExposedIffEndpointZero ==
    \A xfer \in held : ( Xfer_header(xfer) # << >> ) <=> ( xfer.ep = 0 )

\* The device is started, its command channel is empty and its reader
\* worker is running
StartedAndIdle ==
    /\ engine = "alive"
    /\ commands = "Some"
    /\ cmd_chan = << >>
    /\ reader = "running"

C19_BlockingReadReturnsOnlyTransfers ==
    ( last.op = "blocking_read" /\ last.result = "Ok" ) => last.xfer # << >>

\* The device is started, its reader worker has exited and the command
\* channel is drained
ReaderGoneAndDrained ==
    /\ engine = "alive"
    /\ commands = "Some"
    /\ cmd_chan = << >>
    /\ reader = "exited"

\* C20: once the reader worker has exited and the command channel is
\* drained, on a device that is still started, read() and blocking_read()
\* can both return (blocking_read() does not wait), every call of either
\* returns the reader-gone error and changes nothing, and no command
\* arrives any more for as long as the session lasts.
C20_ReaderGoneIsReported ==
    /\ [](ReaderGoneAndDrained => ( ENABLED read /\ ENABLED blocking_read ))
    /\ [][ ( /\ ReaderGoneAndDrained
             /\ last' # last
             /\ last'.op \in {"read", "blocking_read"} )
           => /\ last'.result = "Err"
              /\ last'.err = "ReaderGone"
              /\ last'.xfer = << >>
              /\ reply_chan' = reply_chan
              /\ current_config' = current_config
              /\ ReaderGoneAndDrained' ]_vars
    /\ [][ ( ReaderGoneAndDrained /\ commands' = "Some" /\ reader' = "exited" )
           => ReaderGoneAndDrained' ]_vars

\* C20 witness: the reader exited on a frame with an unknown command
\* number, and a later blocking_read() on the started device returned the
\* reader-gone error.
C20_Witness ==
    /\ ReaderGoneAndDrained
    /\ rejected # << >>
    /\ rejected[1].command \notin { USBIP_CMD_SUBMIT, USBIP_CMD_UNLINK }
    /\ last.op = "blocking_read"
    /\ last.result = "Err"
    /\ last.err = "ReaderGone"

\* The device was never started or was stopped: it holds neither channel
NotStarted == commands = "None" /\ replies = "None"

\* C21: on a device that is not started, every call of read(),
\* blocking_read() and write() returns the not-started error, takes no
\* command, enqueues no reply and leaves the configuration and the
\* channels as they were; the two channel ends are present or absent
\* together.
C21_NotStartedIsReported ==
    /\ []( commands = "None" <=> replies = "None" )
    /\ [][ ( /\ NotStarted
             /\ last' # last
             /\ last'.op \in {"read", "blocking_read", "write"} )
           => /\ last'.result = "Err"
              /\ last'.err = "NotStarted"
              /\ last'.cmd = << >>
              /\ last'.sent = << >>
              /\ cmd_chan' = cmd_chan
              /\ reply_chan' = reply_chan
              /\ current_config' = current_config
              /\ NotStarted' ]_vars

\* C21 witness: after start() and stop(), write() of a reply for a Transfer
\* the caller still held returned the not-started error.
C21_Witness ==
    /\ NotStarted
    /\ port # << >>
    /\ last.op = "write"
    /\ last.xfer # << >>
    /\ last.result = "Err"
    /\ last.err = "NotStarted"

\* No worker of this device, of the current or of a replaced session, runs
AllWorkersExited ==
    /\ reader # "running"
    /\ writer # "running"
    /\ old_readers = 0
    /\ old_writers = 0

\* A step a worker takes without a frame or an end of stream from the
\* kernel side of the socket and without a call of the caller
WorkerStep == WriteHandler_run \/ WriteHandler_closed \/ OldWriteHandler_exit

\* C22: once the device holds no channel end (after stop(), or after the
\* device was dropped) in a session whose start() spawned both workers, the
\* workers get to their exit on their own: as long as one of them still
\* runs, a worker can take a step that needs nothing from the kernel side
\* or the caller.
C22_WorkersExitAfterStop ==
    ( NotStarted /\ writer # "none" )
    => ( AllWorkersExited \/ ENABLED WorkerStep )

\* The latest call handled a CMD_UNLINK and enqueued its RET_UNLINK
UnlinkAcknowledged ==
    /\ Handled
    /\ last.cmd[1].variant = USBIP_CMD_UNLINK
    /\ Len(last.sent) = 1
    /\ last.sent[1].variant = USBIP_RET_UNLINK

\* A step that is a write() of a reply for a Transfer whose seqnum is the
\* one the unlink acknowledged by the call before it targeted, on a device
\* that is started
WriteForUnlinkedTransfer ==
    /\ UnlinkAcknowledged
    /\ replies = "Some"
    /\ last'.op = "write"
    /\ last'.xfer # << >>
    /\ last'.xfer[1].cmd.base.seqnum = last.cmd[1].unlink_seqnum

C24_FailedStartLeavesNotStarted ==
    [][ ( /\ NotStarted
          /\ AllWorkersExited
          /\ last'.op = "start"
          /\ last'.result = "Err" )
        => /\ NotStarted'
           /\ AllWorkersExited' ]_vars

\* The reader workers and the writer workers of this device that are alive
AliveReaders == old_readers + IF reader = "running" THEN 1 ELSE 0

AliveWriters == old_writers + IF writer = "running" THEN 1 ELSE 0

\* C25: whatever start() and stop() calls were made, at most one reader
\* worker and at most one writer worker of the device are alive.
C25_AtMostOneWorkerOfEachKind ==
    /\ AliveReaders <= 1
    /\ AliveWriters <= 1

\* The bytes Configuration::pack_to_vec gives for the configuration the
\* caller is building
PackedConfig == Configuration_pack_to_vec(builder.config)

\* C26: for a configuration built from any sequence of HID interface
\* additions, the packed bytes carry at offsets 2..4 the little-endian 16-bit
\* length of the packed bytes themselves, and at offset 4 the number of
\* interfaces added.
C26_PackedConfigurationCarriesLengthAndCount ==
    builder.target = "configuration" =>
        /\ PackedConfig[3] + 256 * PackedConfig[4] = Len(PackedConfig)
        /\ PackedConfig[5] = Len(builder.interfaces_added)

\* A configuration of two interfaces, one of them with a report descriptor
\* and an endpoint, has been built and packs to more than its 9-byte header
C26_Witness ==
    /\ builder.target = "configuration"
    /\ Len(builder.interfaces_added) = 2
    /\ \E k \in 1..2 :
         /\ builder.config.interfaces[k].endpoint_descriptors # << >>
         /\ builder.config.interfaces[k].report_descriptor_info # << >>
    /\ Len(PackedConfig) > 9 + 2 * 15

\* The string table has an entry of index idx
StringExists(idx) == idx < Len(builder.device.string_descs)

\* C27: after any sequence of device builder calls, the device descriptor's
\* num_configurations is the number of configurations added, and each of
\* the manufacturer, product and serial indices is 0 or the index of an
\* existing string-table entry.
C27_DeviceDescriptorCountsAndIndices ==
    builder.target = "device" =>
        /\ builder.device.device_desc.b_num_configurations = builder.configs_added
        /\ \A idx \in { builder.device.device_desc.i_manufacturer,
                         builder.device.device_desc.i_product,
                         builder.device.device_desc.i_serial_number } :
              idx = 0 \/ StringExists(idx)

\* C28: after any sequence of report_descriptor and endpoint_descriptor
\* calls on an HID interface builder, none included, the HID descriptor's
\* num_descriptors is the number of report descriptors added and the
\* interface descriptor's num_endpoints is the number of endpoint
\* descriptors added.
C28_HidCountsMatchCalls ==
    builder.target = "configuration" =>
        /\ builder.hid.descriptor.b_num_descriptors = builder.reports_added
        /\ builder.hid.iface.b_num_endpoints = builder.endpoints_added

\* C29: in a configuration built with the configuration builder, the k-th
\* interface added is the k-th interface of the configuration and has the
\* interface number k, counted from 0: no gap and no duplicate.
C29_InterfaceNumbersAreSequential ==
    builder.target = "configuration" =>
        /\ Len(builder.config.interfaces) = Len(builder.interfaces_added)
        /\ \A k \in 1..Len(builder.config.interfaces) :
              builder.config.interfaces[k] =
                  [ builder.interfaces_added[k] EXCEPT
                      !.iface.b_interface_number = k - 1 ]

\* Two different interfaces have been added and the second one has number 1
C29_Witness ==
    /\ builder.target = "configuration"
    /\ Len(builder.interfaces_added) = 2
    /\ builder.interfaces_added[1] # builder.interfaces_added[2]
    /\ builder.config.interfaces[2].iface.b_interface_number = 1

\* Both ends of the reply channel are alive: the device holds the sender
\* and the writer worker the receiver
RepliesAlive == replies = "Some" /\ writer = "running"

\* Both ends of the command channel are alive: the reader worker holds the
\* sender and the device the receiver
CommandsAlive == commands = "Some" /\ reader = "running"

\* C30: while both ends of a channel stay alive and start() does not replace
\* it, a step leaves the channel as it is, or puts messages at its tail (the
\* replies of the call in the order the call pushed them; the one command
\* the reader read), or takes the message at its head (the reply the writer
\* writes to the socket; the command the engine handles): no message is
\* reordered, duplicated or dropped.
C30_ChannelsAreFifo ==
    [][ ~ start =>
          /\ ( RepliesAlive /\ RepliesAlive' ) =>
                \/ reply_chan' = reply_chan
                \/ reply_chan' = reply_chan \o last'.sent
                \/ reply_chan # << >> /\ reply_chan' = Tail(reply_chan)
          /\ ( CommandsAlive /\ CommandsAlive' ) =>
                \/ cmd_chan' = cmd_chan
                \/ /\ Len(cmd_chan') = Len(cmd_chan) + 1
                   /\ SubSeq(cmd_chan', 1, Len(cmd_chan)) = cmd_chan
                   /\ cmd_chan'[Len(cmd_chan')].id = nframes'
                \/ /\ cmd_chan # << >>
                   /\ cmd_chan' = Tail(cmd_chan)
                   /\ last'.cmd = << Head(cmd_chan) >> ]_vars

\* Two different replies wait in the reply channel of a running session in
\* which the second command read from the socket has just been handled
C30_Witness ==
    /\ RepliesAlive
    /\ CommandsAlive
    /\ Len(reply_chan) >= 2
    /\ reply_chan[1] # reply_chan[2]
    /\ last.cmd # << >>
    /\ last.cmd[1].id = 2

\* The commands in the command channel or taken from it by the latest call
AcceptedCommands ==
    { cmd_chan[i] : i \in 1..Len(cmd_chan) }
    \cup { last.cmd[i] : i \in 1..Len(last.cmd) }

\* C31: a Command the reader pushed has a payload of transfer_buffer_length
\* bytes when it is a CMD_SUBMIT with direction OUT and an empty payload
\* otherwise, and the reader took from the stream exactly the bytes of the
\* frame, so that it resumes at the header of the next frame.
C31_PayloadLengthAndFrameBoundary ==
    \A cmd \in AcceptedCommands :
        /\ Len(cmd.payload) =
              IF cmd.variant = USBIP_CMD_SUBMIT /\ cmd.base.direction = Out
              THEN cmd.transfer_buffer_length ELSE 0
        /\ cmd.consumed = cmd.frame_len

\* The reader has pushed an OUT submit with its payload and, after it, an IN
\* submit that asks for 64 bytes and carries none
C31_Witness ==
    /\ Len(cmd_chan) = 2
    /\ cmd_chan[1].variant = USBIP_CMD_SUBMIT
    /\ cmd_chan[1].base.direction = Out
    /\ cmd_chan[1].payload = OutData
    /\ cmd_chan[2].variant = USBIP_CMD_SUBMIT
    /\ cmd_chan[2].base.direction = In
    /\ cmd_chan[2].transfer_buffer_length = 64
    /\ cmd_chan[2].payload = << >>

\* C32: every reply the writer took from the channel and reported as written
\* has put its 48 header bytes and then all its payload bytes on the stream:
\* no reply was written short.
C32_WrittenRepliesAreWhole == short_write = << >>

\* C33: the current configuration is None or one of the configurations of
\* the device info, and once it is not None no step - no command, no
\* stop(), no start() - makes it None again.
C33_ConfigurationIsKnownAndStays ==
    /\ [] ( current_config = << >>
             \/ \E i \in 1..Len(info.configs) :
                   current_config = << info.configs[i] >> )
    /\ [][ current_config # << >> => current_config' # << >> ]_vars

\* A configuration was selected before the latest call, the call got a
\* command, failed, and the configuration is still the selected one
C33_Witness ==
    /\ current_config # << >>
    /\ last.op \in {"read", "blocking_read"}
    /\ last.result = "Err"
    /\ last.cmd # << >>
    /\ last.before # << >>
    /\ last.before = current_config

\* A step in which read() or blocking_read() returns
ReadReturns == last' # last /\ last'.op \in {"read", "blocking_read"}

C35_FailedCallKeepsConfiguration ==
    ( /\ last.op \in {"read", "blocking_read"}
      /\ last.cmd # << >>
      /\ last.result = "Err" )
    => current_config = last.before

\* C36: a reply the engine pushed by itself for an IN control request on
\* endpoint 0 has a payload of at most wLength bytes of the setup request
\* it answers.
C36_AutomaticInReplyWithinWLength ==
    \A r \in EnqueuedReplies :
        ( /\ r.auto
          /\ r.variant = USBIP_RET_SUBMIT
          /\ r.origin.base.ep = 0
          /\ r.origin.base.direction = In )
        => Len(r.payload) <= r.origin.setup.w_length

\* C37: the commands the reader pushed stay in the queue when it exits, for
\* as long as the device keeps its end of the channel (no stop(), no
\* start(), no panic): the exit itself removes nothing, a call of read() or
\* blocking_read() made while the queue is not empty takes the command at
\* its head, and the call reports the reader as gone only when it has found
\* the queue empty.
C37_QueuedCommandsSurviveReaderExit ==
    [][ /\ ( reader = "running" /\ reader' = "exited" /\ commands = "Some" )
            => cmd_chan' = cmd_chan
        /\ ( reader = "exited" /\ commands = "Some" /\ ReadReturns ) =>
              IF cmd_chan # << >>
              THEN /\ last'.cmd = << Head(cmd_chan) >>
                   /\ cmd_chan' = Tail(cmd_chan) \/ engine' = "panicked"
              ELSE last'.result = "Err" /\ last'.err = "ReaderGone"
        /\ ( last' # last /\ last'.err = "ReaderGone" ) => cmd_chan = << >>
        /\ ( reader = "exited" /\ commands = "Some" /\ commands' = "Some"
               /\ ~ ReadReturns /\ ~ start )
            => cmd_chan' = cmd_chan ]_vars

\* The reader is gone, the first command it pushed has been handled by a
\* call and the second still waits in the queue
C37_Witness ==
    /\ reader = "exited"
    /\ commands = "Some"
    /\ last.op \in {"read", "blocking_read"}
    /\ last.cmd # << >>
    /\ last.cmd[1].id = 1
    /\ Len(cmd_chan) = 1
    /\ cmd_chan[1].id = 2

\* The string table entry of index idx is text
StringAt(idx, text) ==
    /\ idx < Len(builder.device.string_descs)
    /\ builder.device.string_descs[idx + 1] = text

\* C38: once supported_langs, manufacturer, product and serial have been
\* called on the device builder, in whatever order, entry 0 of the string
\* table is the language-ID array, and the entries at i_manufacturer,
\* i_product and i_serial_number are the manufacturer, product and serial
\* texts passed in.
C38_StringIndicesNameTheirTexts ==
    ( /\ builder.target = "device"
      /\ builder.called = { "supported_langs", "manufacturer", "product", "serial" }
      /\ Len(builder.device.string_descs) = 4 )
    => /\ StringAt(0, StringDescriptor_from_langs(BuilderLangs))
       /\ StringAt(builder.device.device_desc.i_manufacturer, BuilderManufacturer)
       /\ StringAt(builder.device.device_desc.i_product, BuilderProduct)
       /\ StringAt(builder.device.device_desc.i_serial_number, BuilderSerial)

\* C39: stop() changes the two channel ends and nothing else of the device:
\* the device info, the port and the current configuration are the same
\* after it, and a start() keeps the device info and the current
\* configuration, so the session started after a stop() has the
\* configuration selected in the session before.
C39_StopKeepsInfoPortAndConfiguration ==
    [][ /\ last'.op = "stop" =>
              /\ info' = info
              /\ port' = port
              /\ current_config' = current_config
              /\ replies' = "None" /\ commands' = "None"
        /\ last'.op = "start" =>
              /\ info' = info
              /\ current_config' = current_config ]_vars

\* A session has just been started on a device that has the configuration
\* selected in an earlier session
C39_Witness ==
    /\ last.op = "start"
    /\ last.result = "Ok"
    /\ replies = "Some"
    /\ port # << >>
    /\ current_config # << >>

====
